---- MODULE Spec2Model ----
(***************************************************************************)
(* Model of the unified-docs-hub document store (src/database.py), its     *)
(* search query and the response limiter (src/response_limiter.py).        *)
(*                                                                         *)
(* The store is an SQLite database: tables are functions from rowid to     *)
(* row, a new rowid is max(rowid)+1, triggers run inside the statement     *)
(* that fires them, and cursor.lastrowid is the connection's               *)
(* last_insert_rowid.                                                      *)
(***************************************************************************)
EXTENDS Integers, Sequences, FiniteSets, TLC

VARIABLES
    repositories,       \* table repositories: id -> row
    documents,          \* table documents: id -> row
    documents_fts,      \* virtual table documents_fts: rowid -> row
    last_insert_rowid,  \* sqlite3_last_insert_rowid of the connection db.conn
    now,                \* the value CURRENT_TIMESTAMP had when last read
    ret,                \* the most recent call: operation, arguments, result
    search_queries,     \* analytics table search_queries: id -> row
    popular_searches,   \* analytics table popular_searches: id -> row
    search_categories,  \* analytics table search_categories: id -> row
    missing_docs,       \* analytics table missing_docs: id -> row
    txn                 \* the open transaction of a connection that writes
                        \* statement by statement: its position and the
                        \* tables as that connection sees them

\* the tables of the analytics database
analytics == <<search_queries, popular_searches, search_categories,
               missing_docs>>

vars == <<repositories, documents, documents_fts, last_insert_rowid, now, ret,
          analytics, txn>>

\* ---------------------------------------------------------------- bounds
MaxRepoId == 2      \* repository inserts stop once the next id exceeds this
MaxDocId == 2       \* document and index inserts stop once the next rowid
                    \* exceeds this
MaxTime == 1        \* CURRENT_TIMESTAMP ranges over 0..MaxTime

\* ---------------------------------------------------------------- values
NULL == "NULL"      \* SQL NULL / Python None

Max(S) == CHOOSE m \in S : \A x \in S : x <= m

\* rowid given to a row inserted without one: max(rowid)+1, 1 if empty
NextRowid(table) == IF DOMAIN table = {} THEN 1 ELSE Max(DOMAIN table) + 1

\* dict.get(key, default)
Get(d, key, default) == IF key \in DOMAIN d THEN d[key] ELSE default

\* json.dumps / json.loads of a list or dict value: the stored text is the
\* value wrapped as JSON text
json_dumps(v) == <<"json", v>>

json_loads(t) == t[2]

\* v is None; NULL is a string, a timestamp or an id a number
IsNull(v) == ToString(v) = ToString(NULL)

\* COALESCE(x, y)
COALESCE(x, y) == IF x # NULL THEN x ELSE y

\* ------------------------------------------------------- float arithmetic
\* Python floats and SQLite REAL values are IEEE 754 doubles.  A natural
\* number of any size is a sequence of limbs in base 2^15, lowest first and
\* without a zero at the top; a double x >= 0 is [m, e] with x = m * 2^e and
\* m = 0 or 2^52 <= m < 2^53.  Every operation computes the exact result and
\* rounds it to nearest, ties to even; exponents stay far from the ends of
\* the range, so there are no subnormals and no overflow.
Base == 32768

Pow2(k) == 2 ^ k

RECURSIVE BigFromInt(_)
BigFromInt(n) == IF n = 0 THEN <<>> ELSE <<n % Base>> \o BigFromInt(n \div Base)

RECURSIVE BigTrim(_)
BigTrim(a) ==
    IF a = <<>> THEN <<>>
    ELSE IF a[Len(a)] = 0 THEN BigTrim(SubSeq(a, 1, Len(a) - 1))
    ELSE a

Limb(a, i) == IF i <= Len(a) THEN a[i] ELSE 0

RECURSIVE BigAddFrom(_, _, _, _)
BigAddFrom(a, b, i, carry) ==
    IF i > Len(a) /\ i > Len(b)
    THEN (IF carry = 0 THEN <<>> ELSE <<carry>>)
    ELSE LET t == Limb(a, i) + Limb(b, i) + carry
         IN  <<t % Base>> \o BigAddFrom(a, b, i + 1, t \div Base)

BigAdd(a, b) == BigAddFrom(a, b, 1, 0)

\* a * c for 0 <= c < 2^15
RECURSIVE BigMulSmallFrom(_, _, _, _)
BigMulSmallFrom(a, c, i, carry) ==
    IF i > Len(a) THEN BigFromInt(carry)
    ELSE LET t == a[i] * c + carry
         IN  <<t % Base>> \o BigMulSmallFrom(a, c, i + 1, t \div Base)

BigMulSmall(a, c) == BigTrim(BigMulSmallFrom(a, c, 1, 0))

\* a * Base^k
BigShlLimbs(a, k) == IF a = <<>> THEN <<>> ELSE [i \in 1..k |-> 0] \o a

RECURSIVE BigMulFrom(_, _, _)
BigMulFrom(a, b, j) ==
    IF j > Len(b) THEN <<>>
    ELSE BigAdd(BigShlLimbs(BigMulSmall(a, b[j]), j - 1),
                BigMulFrom(a, b, j + 1))

BigMul(a, b) == BigMulFrom(a, b, 1)

\* quotient and remainder of a by n, 0 < n < 2^15, from limb i down with
\* remainder r carried in
RECURSIVE BigDivSmallFrom(_, _, _, _)
BigDivSmallFrom(a, n, i, r) ==
    IF i = 0 THEN [q |-> <<>>, r |-> r]
    ELSE LET t == r * Base + a[i]
             rest == BigDivSmallFrom(a, n, i - 1, t % n)
         IN  [q |-> rest.q \o <<t \div n>>, r |-> rest.r]

BigDivSmall(a, n) ==
    LET d == BigDivSmallFrom(a, n, Len(a), 0)
    IN  [q |-> BigTrim(d.q), r |-> d.r]

\* a * 2^k
BigShl(a, k) == BigShlLimbs(BigMulSmall(a, Pow2(k % 15)), k \div 15)

\* floor(a / 2^k), and whether bits were lost
BigShr(a, k) ==
    LET n == k \div 15
        kept == IF n >= Len(a) THEN <<>> ELSE SubSeq(a, n + 1, Len(a))
        lost == \E i \in 1..n : Limb(a, i) # 0
        d == BigDivSmall(kept, Pow2(k % 15))
    IN  [q |-> d.q, sticky |-> lost \/ d.r # 0]

RECURSIVE IntBitLen(_)
IntBitLen(n) == IF n = 0 THEN 0 ELSE 1 + IntBitLen(n \div 2)

BigBitLen(a) ==
    IF a = <<>> THEN 0 ELSE 15 * (Len(a) - 1) + IntBitLen(a[Len(a)])

BigOdd(a) == a # <<>> /\ a[1] % 2 = 1

\* a < b
BigLess(a, b) ==
    \/ Len(a) < Len(b)
    \/ /\ Len(a) = Len(b)
       /\ \E i \in DOMAIN a :
            /\ a[i] < b[i]
            /\ \A j \in (i + 1)..Len(a) : a[j] = b[j]

\* the value of a small bignum
RECURSIVE BigToInt(_)
BigToInt(a) == IF a = <<>> THEN 0 ELSE a[1] + Base * BigToInt(Tail(a))

FZero == [m |-> <<>>, e |-> 0]

\* the element of a set of one element; its use is { e(v) : v \in {value} },
\* which computes the value once for all its uses in e
Only(S) == CHOOSE r \in S : TRUE

\* the double nearest to (M + f) * 2^e, where 0 <= f < 1 and f > 0 iff
\* sticky; with sticky, M has at least 55 bits
FRoundBits(M, L, e, sticky) ==
    IF M = <<>> THEN FZero
    ELSE IF L <= 53 THEN [m |-> BigShl(M, 53 - L), e |-> e - (53 - L)]
    ELSE Only({IF BigBitLen(m) = 54
               THEN [m |-> BigDivSmall(m, 2).q, e |-> e + (L - 53) + 1]
               ELSE [m |-> m, e |-> e + (L - 53)] :
               m \in {IF BigOdd(s.q)
                         /\ (s.sticky \/ sticky
                             \/ BigOdd(BigDivSmall(s.q, 2).q))
                      THEN BigAdd(BigDivSmall(s.q, 2).q, <<1>>)
                      ELSE BigDivSmall(s.q, 2).q :
                      s \in {BigShr(M, (L - 53) - 1)}}})

FRound(M, e, sticky) ==
    Only({FRoundBits(big, BigBitLen(big), e, sticky) : big \in {M}})

\* float(n)
FromInt(n) == FRound(BigFromInt(n), 0, FALSE)

\* x * y
FMul(x, y) ==
    Only({FRound(BigMul(a.m, b.m), a.e + b.e, FALSE) : a \in {x}, b \in {y}})

\* x + y
FAdd(x, y) ==
    Only({IF a.m = <<>> THEN b
          ELSE IF b.m = <<>> THEN a
          ELSE IF a.e >= b.e
          THEN FRound(BigAdd(BigShl(a.m, a.e - b.e), b.m), b.e, FALSE)
          ELSE FRound(BigAdd(BigShl(b.m, b.e - a.e), a.m), a.e, FALSE) :
          a \in {x}, b \in {y}})

\* x / n for an integer 0 < n < 2^15
FDivInt(x, n) ==
    Only({Only({FRound(d.q, a.e - 20, d.r # 0) :
                d \in {BigDivSmall(BigShl(a.m, 20), n)}}) : a \in {x}})

\* the float literal num/den, den a power of ten: 0.25 is Dec(25, 100)
Dec(num, den) == FDivInt(FromInt(num), den)

\* x < y
FLess(x, y) ==
    \E a \in {x}, b \in {y} :
        IF b.m = <<>> THEN FALSE
        ELSE IF a.m = <<>> THEN TRUE
        ELSE a.e < b.e \/ (a.e = b.e /\ BigLess(a.m, b.m))

FLeq(x, y) == x = y \/ FLess(x, y)

\* min(x, y)
FMin(x, y) == Only({IF FLess(b, a) THEN b ELSE a : a \in {x}, b \in {y}})

\* a - 1 for a bignum a > 0
RECURSIVE BigPred(_)
BigPred(a) ==
    IF a[1] > 0 THEN BigTrim([a EXCEPT ![1] = a[1] - 1])
    ELSE BigTrim(<<Base - 1>> \o BigPred(Tail(a)))

\* the greatest float below x, for a float x > 0
FPrev(x) ==
    IF BigBitLen(BigPred(x.m)) = 53 THEN [m |-> BigPred(x.m), e |-> x.e]
    ELSE [m |-> BigPred(BigShl(x.m, 1)), e |-> x.e - 1]

\* x + y as an exact number [m, e], not rounded
ExactAdd(x, y) ==
    IF x.m = <<>> THEN y
    ELSE IF y.m = <<>> THEN x
    ELSE IF x.e >= y.e
    THEN [m |-> BigAdd(BigShl(x.m, x.e - y.e), y.m), e |-> y.e]
    ELSE [m |-> BigAdd(BigShl(y.m, y.e - x.e), x.m), e |-> x.e]

\* ---------------------------------------------------------------- inputs
\* repo_data dictionaries handed to upsert_repository; quality scores are in
\* hundredths (50 stands for 0.5)
RepoInputs ==
    { [owner |-> "a", name |-> "x", full_name |-> "a/x", stars |-> 5,
       language |-> "Python", category |-> "AI/ML", description |-> "d1",
       source |-> "curated", quality_score |-> 70, quality_grade |-> "B",
       doc_paths |-> <<"README.md">>, topics |-> <<"ml">>],
      [owner |-> "a", name |-> "x", full_name |-> "a/x", stars |-> 9],
      [owner |-> "b", name |-> "y", full_name |-> "b/y", stars |-> 5,
       category |-> NULL, description |-> "d2", source |-> "discovered"],
      [owner |-> "b", name |-> "y", full_name |-> "b/y", stars |-> 0,
       language |-> "Go", category |-> "Web", description |-> NULL,
       quality_score |-> 90, quality_grade |-> "A+", topics |-> <<"web">>],
      [owner |-> "c", name |-> "z", full_name |-> "a/x"] }

Paths == {"README.md", "docs/guide.md"}

\* (content, content_hash) pairs; the hash is the caller's sha256 of content
Contents == { <<"hello world", "h1">>, <<"hello there", "h2">> }

None == [op |-> "none"]

\* no transaction is open: every table is as committed
NoTxn == [pc |-> "idle"]

\* ---------------------------------------------------------------- Init
Init ==
    /\ repositories = <<>>
    /\ documents = <<>>
    /\ documents_fts = <<>>
    /\ last_insert_rowid = 0
    /\ now = 0
    /\ ret = None
    /\ search_queries = <<>>
    /\ popular_searches = <<>>
    /\ search_categories = <<>>
    /\ missing_docs = <<>>
    /\ txn = NoTxn

\* ------------------------------------------------------ upsert_repository
\* the row INSERT INTO repositories would write for repo_data
RepoRow(d) ==
    [owner |-> d.owner, name |-> d.name, full_name |-> d.full_name,
     stars |-> Get(d, "stars", 0),
     language |-> Get(d, "language", NULL),
     category |-> Get(d, "category", NULL),
     description |-> Get(d, "description", NULL),
     source |-> Get(d, "source", "discovered"),
     quality_score |-> Get(d, "quality_score", 50),
     quality_grade |-> Get(d, "quality_grade", "C"),
     quality_metrics |-> json_dumps(Get(d, "quality_metrics", <<>>)),
     priority |-> Get(d, "priority", "medium"),
     doc_paths |-> json_dumps(Get(d, "doc_paths", <<>>)),
     topics |-> json_dumps(Get(d, "topics", <<>>)),
     last_indexed |-> NULL]

\* an update that overwrites category and description like the other columns
RepoUpdateNoCoalesce(old, new) ==
    [old EXCEPT
        !.stars = new.stars,
        !.language = new.language,
        !.category = new.category,
        !.description = new.description,
        !.quality_score = new.quality_score,
        !.quality_grade = new.quality_grade,
        !.quality_metrics = new.quality_metrics,
        !.priority = new.priority,
        !.doc_paths = new.doc_paths,
        !.topics = new.topics]

\* ON CONFLICT(owner, name) DO UPDATE SET ...
RepoUpdate(old, new) ==
    [old EXCEPT
        !.stars = new.stars,
        !.language = new.language,
        !.category = COALESCE(new.category, old.category),
        !.description = COALESCE(new.description, old.description),
        !.quality_score = new.quality_score,
        !.quality_grade = new.quality_grade,
        !.quality_metrics = new.quality_metrics,
        !.priority = new.priority,
        !.doc_paths = new.doc_paths,
        !.topics = new.topics]

RepoByKeyIn(repos, owner, name) ==
    {i \in DOMAIN repos : repos[i].owner = owner /\ repos[i].name = name}

RepoByKey(owner, name) == RepoByKeyIn(repositories, owner, name)

RepoByFullName(full_name) ==
    {i \in DOMAIN repositories : repositories[i].full_name = full_name}

\* INSERT ... ON CONFLICT(owner, name) DO UPDATE on the table repos of a
\* connection whose last_insert_rowid is lir: the table and last_insert_rowid
\* afterwards, cursor.lastrowid and the exception.  A full_name already used
\* by another key violates UNIQUE(full_name) and raises
Upsert(repos, lir, d) ==
    LET new == RepoRow(d)
        hit == RepoByKeyIn(repos, d.owner, d.name)
        clash == {i \in DOMAIN repos : repos[i].full_name = d.full_name}
        id == NextRowid(repos)
    IN  IF hit # {}
        THEN [repositories |->
                [i \in DOMAIN repos |->
                    IF i \in hit THEN RepoUpdate(repos[i], new)
                    ELSE repos[i]],
              last_insert_rowid |-> lir, val |-> lir, err |-> "none"]
        ELSE IF clash # {}
        THEN [repositories |-> repos, last_insert_rowid |-> lir,
              val |-> NULL, err |-> "IntegrityError"]
        ELSE [repositories |->
                [i \in DOMAIN repos \cup {id} |->
                    IF i = id THEN new ELSE repos[i]],
              last_insert_rowid |-> id, val |-> id, err |-> "none"]

\* upsert_repository(repo_data); returns cursor.lastrowid
upsert_repository(d) ==
    LET u == Upsert(repositories, last_insert_rowid, d)
    IN  /\ repositories' = u.repositories
        /\ last_insert_rowid' = u.last_insert_rowid
        /\ ret' = [op |-> "upsert_repository", arg |-> d, val |-> u.val,
                   err |-> u.err]
        /\ UNCHANGED <<documents, documents_fts, now, analytics, txn>>

\* ------------------------------------------- import_curated_repositories
\* repo_config['repo'].split('/')
Split(repo) ==
    CASE repo = "a/x" -> <<"a", "x">>
      [] repo = "b/y" -> <<"b", "y">>
      [] repo = "a/b/c" -> <<"a", "b", "c">>
      [] OTHER -> <<repo>>

\* the repo_data import_curated_repositories builds from an entry of the
\* configuration and the answer of GitHub (NULL-free: an absent answer is the
\* empty dict); quality scores are in hundredths, so the default 8 is 800
CuratedRepoData(repo_config, repo_info) ==
    LET parts == Split(repo_config.repo)
        base == [owner |-> parts[1], name |-> parts[2],
                 full_name |-> repo_config.repo,
                 category |-> Get(repo_config, "category", NULL),
                 description |-> Get(repo_config, "description", NULL),
                 source |-> "curated",
                 quality_score |-> Get(repo_config, "quality_score", 800),
                 priority |-> Get(repo_config, "priority", "medium"),
                 doc_paths |-> Get(repo_config, "doc_paths", <<>>),
                 topics |-> Get(repo_config, "topics", <<>>)]
    IN  IF DOMAIN repo_info # {}
        THEN base @@ [stars |-> Get(repo_info, "stargazers_count", 0),
                      language |-> Get(repo_info, "language", NULL)]
        ELSE base

\* the loop of import_curated_repositories from entry k on; an exception of
\* upsert_repository ends it
RECURSIVE ImportFrom(_, _, _, _)
ImportFrom(repos, lir, curated, k) ==
    IF k > Len(curated)
    THEN [repositories |-> repos, last_insert_rowid |-> lir, err |-> "none"]
    ELSE IF Len(Split(curated[k].config.repo)) # 2
    THEN ImportFrom(repos, lir, curated, k + 1)
    ELSE LET u == Upsert(repos, lir,
                         CuratedRepoData(curated[k].config, curated[k].info))
         IN  IF u.err # "none"
             THEN [repositories |-> u.repositories,
                   last_insert_rowid |-> u.last_insert_rowid, err |-> u.err]
             ELSE ImportFrom(u.repositories, u.last_insert_rowid, curated,
                             k + 1)

\* import_curated_repositories() with config['curated_repositories'] and,
\* for each entry, what get_repository_info answers
import_curated_repositories(curated) ==
    LET r == ImportFrom(repositories, last_insert_rowid, curated, 1)
    IN  /\ repositories' = r.repositories
        /\ last_insert_rowid' = r.last_insert_rowid
        /\ ret' = [op |-> "import_curated_repositories", arg |-> curated,
                   val |-> NULL, err |-> r.err]
        /\ UNCHANGED <<documents, documents_fts, now, analytics, txn>>

\* ----------------------------------------------------------- add_document
DocByKeyIn(docs, repo_id, path) ==
    {i \in DOMAIN docs : docs[i].repo_id = repo_id /\ docs[i].path = path}

DocByKey(repo_id, path) == DocByKeyIn(documents, repo_id, path)

\* (SELECT full_name FROM repositories WHERE id = repo_id)
FullNameIn(repos, repo_id) ==
    IF repo_id \in DOMAIN repos THEN repos[repo_id].full_name ELSE NULL

FullNameOf(repo_id) == FullNameIn(repositories, repo_id)

\* trigger documents_ai: one index row per repository row with that id
documents_ai(repos, fts, repo_id, path, content) ==
    IF repo_id \in DOMAIN repos
    THEN [r \in DOMAIN fts \cup {NextRowid(fts)} |->
            IF r \in DOMAIN fts THEN fts[r]
            ELSE [repo_full_name |-> repos[repo_id].full_name,
                  path |-> path, content |-> content]]
    ELSE fts

\* trigger documents_au: UPDATE documents_fts ... WHERE rowid = new.id
documents_au(repos, fts, id, repo_id, path, content) ==
    [r \in DOMAIN fts |->
        IF r = id
        THEN [repo_full_name |-> FullNameIn(repos, repo_id),
              path |-> path, content |-> content]
        ELSE fts[r]]

\* trigger documents_ad: DELETE FROM documents_fts WHERE rowid = old.id
documents_ad(fts, id) == [r \in DOMAIN fts \ {id} |-> fts[r]]

\* an update that leaves indexed_at as it was
DocUpdateKeepsTimestamp(old, content, content_hash, t) ==
    [old EXCEPT !.content = content, !.content_hash = content_hash]

\* ON CONFLICT(repo_id, path) DO UPDATE SET content, content_hash, indexed_at
DocUpdate(old, content, content_hash, t) ==
    [old EXCEPT !.content = content, !.content_hash = content_hash,
                !.indexed_at = t]

\* INSERT ... ON CONFLICT(repo_id, path) DO UPDATE at time t, the table
\* repositories being repos.  The connection never turns PRAGMA foreign_keys
\* on, so repo_id is not checked against the repositories table
AddDocument(repos, docs, fts, lir, repo_id, path, content, hash, t) ==
    LET hit == DocByKeyIn(docs, repo_id, path)
        id == NextRowid(docs)
    IN  IF hit # {}
        THEN LET d == CHOOSE i \in hit : TRUE
             IN  [documents |->
                    [docs EXCEPT ![d] = DocUpdate(@, content, hash, t)],
                  documents_fts |->
                    documents_au(repos, fts, d, repo_id, path, content),
                  last_insert_rowid |-> lir]
        ELSE [documents |->
                [i \in DOMAIN docs \cup {id} |->
                    IF i = id
                    THEN [repo_id |-> repo_id, path |-> path,
                          content |-> content,
                          content_hash |-> hash,
                          indexed_at |-> t]
                    ELSE docs[i]],
              documents_fts |->
                documents_ai(repos, fts, repo_id, path, content),
              last_insert_rowid |-> id]

add_document(repo_id, path, content, content_hash, t) ==
    LET a == AddDocument(repositories, documents, documents_fts,
                         last_insert_rowid, repo_id, path, content,
                         content_hash, t)
    IN  /\ t >= now
        /\ now' = t
        /\ documents' = a.documents
        /\ documents_fts' = a.documents_fts
        /\ last_insert_rowid' = a.last_insert_rowid
        /\ ret' = [op |-> "add_document",
                   arg |-> [repo_id |-> repo_id, path |-> path,
                            content |-> content,
                            content_hash |-> content_hash],
                   val |-> NULL, err |-> "none"]
        /\ UNCHANGED <<repositories, analytics, txn>>

\* DELETE FROM documents WHERE id = ?, with trigger documents_ad
delete_document(id) ==
    /\ id \in DOMAIN documents
    /\ documents' = [i \in DOMAIN documents \ {id} |-> documents[i]]
    /\ documents_fts' = documents_ad(documents_fts, id)
    /\ ret' = [op |-> "delete_document", arg |-> id, val |-> NULL,
               err |-> "none"]
    /\ UNCHANGED <<repositories, last_insert_rowid, now, analytics, txn>>

\* DELETE FROM repositories WHERE id = ?.  documents.repo_id is declared
\* REFERENCES repositories(id) ON DELETE CASCADE, but foreign-key enforcement
\* is off on the connection, so no document row is touched
delete_repository(id) ==
    /\ id \in DOMAIN repositories
    /\ repositories' = [i \in DOMAIN repositories \ {id} |-> repositories[i]]
    /\ ret' = [op |-> "delete_repository", arg |-> id, val |-> NULL,
               err |-> "none"]
    /\ UNCHANGED <<documents, documents_fts, last_insert_rowid, now,
                   analytics, txn>>

\* ------------------------------------------------------ rebuild_fts_index
\* rows of documents d JOIN repositories r ON d.repo_id = r.id, by d.id
RECURSIVE JoinDocsRepos(_)
JoinDocsRepos(ids) ==
    IF ids = {} THEN <<>>
    ELSE LET i == CHOOSE x \in ids : \A y \in ids : x <= y
             rest == JoinDocsRepos(ids \ {i})
         IN  IF documents[i].repo_id \in DOMAIN repositories
             THEN <<[repo_full_name |->
                        repositories[documents[i].repo_id].full_name,
                     path |-> documents[i].path,
                     content |-> documents[i].content]>> \o rest
             ELSE rest

\* DELETE FROM documents_fts, then INSERT ... SELECT: the new rows get rowids
\* 1..n; returns cursor.rowcount, the number of rows inserted
rebuild_fts_index ==
    LET rows == JoinDocsRepos(DOMAIN documents)
    IN  /\ documents_fts' = rows
        /\ last_insert_rowid' =
                IF Len(rows) > 0 THEN Len(rows) ELSE last_insert_rowid
        /\ ret' = [op |-> "rebuild_fts_index", arg |-> NULL,
                   val |-> Len(rows), err |-> "none"]
        /\ UNCHANGED <<repositories, documents, now, analytics, txn>>

\* ------------------------------------------------------------- initialize
\* initialize() opens a new connection to the same database file; a new
\* connection starts with last_insert_rowid 0.  The configuration is the
\* default one, without curated repositories
initialize ==
    /\ last_insert_rowid' = 0
    /\ ret' = [op |-> "initialize", arg |-> NULL, val |-> NULL,
               err |-> "none"]
    /\ UNCHANGED <<repositories, documents, documents_fts, now,
                   analytics, txn>>

\* ------------------------------------------------------- search_documents
\* the tokens the unicode61 tokenizer of FTS5 makes of the indexed texts: it
\* splits at every character that is not a letter or a digit and folds case
unicode61(text) ==
    CASE text = "README.md" -> <<"readme", "md">>
      [] text = "docs/guide.md" -> <<"docs", "guide", "md">>
      [] text = "hello world" -> <<"hello", "world">>
      [] text = "hello there" -> <<"hello", "there">>
      [] text = "hello hello there" -> <<"hello", "hello", "there">>
      [] text = "a/x" -> <<"a", "x">>
      [] text = "b/y" -> <<"b", "y">>
      [] text = "o1/n" -> <<"o1", "n">>
      [] text = "o2/n" -> <<"o2", "n">>
      [] text = "o3/n" -> <<"o3", "n">>
      [] text = "o4/n" -> <<"o4", "n">>
      [] text = "o5/n" -> <<"o5", "n">>
      [] text = "o6/n" -> <<"o6", "n">>
      [] text = "o7/n" -> <<"o7", "n">>
      [] text = "o8/n" -> <<"o8", "n">>
      [] text = "o9/n" -> <<"o9", "n">>
      [] OTHER -> <<>>

\* the terms of an FTS5 query string, all of which a matching row must have;
\* NULL for a string FTS5 rejects with a syntax error
QueryTerms(query) ==
    CASE query = "hello" -> <<"hello">>
      [] query = "there" -> <<"there">>
      [] query = "hello world" -> <<"hello", "world">>
      [] query = "n" -> <<"n">>
      [] query = "o1" -> <<"o1">>
      [] query = "nomatch" -> <<"nomatch">>
      [] OTHER -> NULL

\* the tokens of the three indexed columns of an index row
RowTokens(e) ==
    unicode61(e.repo_full_name) \o unicode61(e.path) \o unicode61(e.content)

\* documents_fts MATCH ?
MATCH(e, terms) ==
    \A k \in DOMAIN terms :
        \E j \in DOMAIN RowTokens(e) : RowTokens(e)[j] = terms[k]

\* the hidden column rank of a matching row: the bm25 score, lower for a row
\* in which the terms occur more often
rank(e, terms) ==
    0 - Cardinality({j \in DOMAIN RowTokens(e) :
                        \E k \in DOMAIN terms : RowTokens(e)[j] = terms[k]})

\* the AND clauses search_documents appends for the filters that are set;
\* a filter that is absent, 0 or '' adds none
FiltersPass(r, filters) ==
    /\ ("min_stars" \in DOMAIN filters /\ filters.min_stars # 0)
            => r.stars >= filters.min_stars
    /\ ("category" \in DOMAIN filters /\ filters.category # "")
            => r.category = filters.category
    /\ ("source" \in DOMAIN filters /\ filters.source # "")
            => r.source = filters.source

\* the selected columns of one row of the join
SelectRow(e, r, terms) ==
    [full_name |-> r.full_name, stars |-> r.stars, category |-> r.category,
     description |-> r.description, source |-> r.source,
     quality_score |-> r.quality_score, path |-> e.path,
     snippet |-> <<"snippet", e.content>>, rank |-> rank(e, terms)]

\* ascending sequence of the members of a set of rowids
RECURSIVE Ascending(_)
Ascending(ids) ==
    IF ids = {} THEN <<>>
    ELSE LET i == CHOOSE x \in ids : \A y \in ids : x <= y
         IN  <<i>> \o Ascending(ids \ {i})

\* concatenation of the sequences f[1], ..., f[Len(f)]
RECURSIVE Flatten(_, _, _)
Flatten(f, lo, hi) ==
    IF lo > hi THEN <<>>
    ELSE IF lo = hi THEN f[lo]
    ELSE LET mid == (lo + hi) \div 2
         IN  Flatten(f, lo, mid) \o Flatten(f, mid + 1, hi)

\* FROM documents_fts JOIN documents d ON documents_fts.path = d.path
\*   JOIN repositories r ON documents_fts.repo_full_name = r.full_name
\* WHERE documents_fts MATCH ? [AND ...], in scan order
SearchJoin(terms, filters) ==
    LET es == Ascending(DOMAIN documents_fts)
        ds == Ascending(DOMAIN documents)
        rs == Ascending(DOMAIN repositories)
        rowsOf(e) ==
            IF ~MATCH(documents_fts[e], terms) THEN <<>>
            ELSE LET perDoc ==
                        [k \in DOMAIN ds |->
                            IF documents[ds[k]].path # documents_fts[e].path
                            THEN <<>>
                            ELSE LET hits == SelectSeq(rs, LAMBDA i :
                                        /\ repositories[i].full_name
                                             = documents_fts[e].repo_full_name
                                        /\ FiltersPass(repositories[i],
                                                       filters))
                                 IN  [m \in DOMAIN hits |->
                                        SelectRow(documents_fts[e],
                                                  repositories[hits[m]],
                                                  terms)]]
                 IN  Flatten(perDoc, 1, Len(perDoc))
        perRow == [k \in DOMAIN es |-> rowsOf(es[k])]
    IN  Flatten(perRow, 1, Len(perRow))

\* an ordering that takes the stars ascending
OrderByStarsAscending(a, b) ==
    \/ a.rank < b.rank
    \/ a.rank = b.rank /\ a.quality_score > b.quality_score
    \/ a.rank = b.rank /\ a.quality_score = b.quality_score
        /\ a.stars < b.stars

\* ORDER BY rank, r.quality_score DESC, r.stars DESC: a sorts before b
OrderBy(a, b) ==
    \/ a.rank < b.rank
    \/ a.rank = b.rank /\ a.quality_score > b.quality_score
    \/ a.rank = b.rank /\ a.quality_score = b.quality_score
        /\ a.stars > b.stars

\* the sort key of a row
SortKey(x) ==
    [rank |-> x.rank, quality_score |-> x.quality_score, stars |-> x.stars]

\* the sort keys of a set, first to last
RECURSIVE KeysInOrder(_)
KeysInOrder(keys) ==
    IF keys = {} THEN <<>>
    ELSE LET k == CHOOSE x \in keys : \A y \in keys \ {x} : OrderBy(x, y)
         IN  <<k>> \o KeysInOrder(keys \ {k})

\* the rows sorted by their keys; rows of equal keys stay in scan order
Sorted(rows) ==
    LET keys == KeysInOrder({SortKey(rows[i]) : i \in DOMAIN rows})
        groups == [k \in DOMAIN keys |->
                    SelectSeq(rows, LAMBDA x : SortKey(x) = keys[k])]
    IN  Flatten(groups, 1, Len(groups))

SEARCH_LIMIT == 50      \* LIMIT 50

\* LIMIT 50
Limit(rows) ==
    IF Len(rows) > SEARCH_LIMIT THEN SubSeq(rows, 1, SEARCH_LIMIT) ELSE rows

\* search_documents(query, filters); filters None is the empty dict
search_documents(query, filters) ==
    LET terms == QueryTerms(query)
        call == [op |-> "search_documents",
                 arg |-> [query |-> query, filters |-> filters]]
    IN  /\ ret' = IF terms = NULL
                  THEN call @@ [val |-> <<>>, err |-> "OperationalError"]
                  ELSE call @@ [val |-> Limit(Sorted(SearchJoin(terms,
                                                                filters))),
                                err |-> "none"]
        /\ UNCHANGED <<repositories, documents, documents_fts,
                       last_insert_rowid, now, analytics, txn>>

\* ------------------------------------------------------- search analytics
\* A query text is the sequence of its words, separated by single spaces.
\* str.lower() of a word
Lower(w) ==
    CASE w = "React" -> "react"
      [] w = "How" -> "how"
      [] w = "To" -> "to"
      [] OTHER -> w

\* len() of a word
WordLen(w) ==
    CASE w \in {"to", "To", "go", "ml"} -> 2
      [] w \in {"how", "How"} -> 3
      [] w \in {"unit", "test"} -> 4
      [] w \in {"React", "react", "hooks", "train"} -> 5
      [] OTHER -> 0

\* the keywords of category_keywords that occur inside a lower-case word
KeywordsIn(w) ==
    CASE w = "react" -> {"react"}
      [] w = "train" -> {"ai"}
      [] w = "ml" -> {"ml"}
      [] w = "test" -> {"test"}
      [] OTHER -> {}

\* category_keywords, in the order of the dict; a keyword of two words is a
\* pair
category_keywords ==
    << [category |-> "AI/ML",
        keywords |-> {"ai", "ml", "neural", "tensorflow", "pytorch"},
        phrases |-> {<<"machine", "learning">>, <<"deep", "learning">>}],
       [category |-> "Web Development",
        keywords |-> {"react", "vue", "angular", "frontend", "backend", "web",
                      "javascript", "css"},
        phrases |-> {}],
       [category |-> "Mobile Development",
        keywords |-> {"ios", "android", "mobile", "flutter", "swift"},
        phrases |-> {<<"react", "native">>}],
       [category |-> "Databases",
        keywords |-> {"sql", "database", "mongodb", "postgresql", "redis",
                      "mysql"},
        phrases |-> {}],
       [category |-> "Cloud/DevOps",
        keywords |-> {"docker", "kubernetes", "aws", "azure", "cloud",
                      "devops", "ci/cd"},
        phrases |-> {}],
       [category |-> "Security",
        keywords |-> {"security", "auth", "encryption", "owasp",
                      "vulnerability"},
        phrases |-> {}],
       [category |-> "Testing",
        keywords |-> {"test", "testing", "jest", "pytest", "e2e"},
        phrases |-> {<<"unit", "test">>}],
       [category |-> "API Development",
        keywords |-> {"api", "rest", "graphql", "grpc", "endpoint"},
        phrases |-> {}] >>

\* any(keyword in query_lower for keyword in keywords)
CategoryMatches(c, query) ==
    \/ \E i \in DOMAIN query : KeywordsIn(Lower(query[i])) \cap c.keywords # {}
    \/ \E i \in 1..(Len(query) - 1) :
            <<Lower(query[i]), Lower(query[i + 1])>> \in c.phrases

\* the rows of a table whose column has the value
RowsWith(table, column, value) ==
    {i \in DOMAIN table : table[i][column] = value}

\* the update of search_categories for the categories from index k on
RECURSIVE TrackFrom(_, _, _, _)
TrackFrom(table, query, k, t) ==
    IF k > Len(category_keywords) THEN table
    ELSE LET c == category_keywords[k]
             hit == RowsWith(table, "category", c.category)
             next ==
                IF ~CategoryMatches(c, query) THEN table
                ELSE IF hit # {}
                THEN [i \in DOMAIN table |->
                        IF i \in hit
                        THEN [table[i] EXCEPT
                                !.search_count = @ + 1, !.last_updated = t]
                        ELSE table[i]]
                ELSE Append(table, [category |-> c.category,
                                    search_count |-> 1, last_updated |-> t])
         IN  TrackFrom(next, query, k + 1, t)

\* a tracking that passes over the first category of the dict
track_categories_from_second(table, query, t) == TrackFrom(table, query, 2, t)

\* _track_categories(query) at time t
track_categories(table, query, t) == TrackFrom(table, query, 1, t)

stop_words ==
    {"how", "to", "what", "where", "when", "why", "is", "are", "the", "a",
     "an"}

\* an extraction that does not look at the length of a word
extract_topic_any_length(query) ==
    LET good == {i \in DOMAIN query : Lower(query[i]) \notin stop_words}
    IN  IF good # {}
        THEN Lower(query[CHOOSE i \in good : \A j \in good : i <= j])
        ELSE IF query # <<>> THEN query[1] ELSE "unknown"

\* _extract_topic(query): the first lower-cased word that is no stop word and
\* longer than two characters, else the first word as written, else 'unknown'
extract_topic(query) ==
    LET good == {i \in DOMAIN query :
                    Lower(query[i]) \notin stop_words /\ WordLen(query[i]) > 2}
    IN  IF good # {}
        THEN Lower(query[CHOOSE i \in good : \A j \in good : i <= j])
        ELSE IF query # <<>> THEN query[1] ELSE "unknown"

\* a tracking that always inserts
track_missing_docs_insert_only(table, query, t) ==
    Append(table, [topic |-> extract_topic(query), query |-> query,
                   request_count |-> 1, first_requested |-> t,
                   last_requested |-> t])

\* _track_missing_docs(query) at time t
track_missing_docs(table, query, t) ==
    LET topic == extract_topic(query)
        hit == {i \in DOMAIN table :
                    table[i].topic = topic /\ table[i].query = query}
    IN  IF hit # {}
        THEN [i \in DOMAIN table |->
                IF i \in hit
                THEN [table[i] EXCEPT
                        !.request_count = @ + 1, !.last_requested = t]
                ELSE table[i]]
        ELSE Append(table, [topic |-> topic, query |-> query,
                            request_count |-> 1, first_requested |-> t,
                            last_requested |-> t])

\* new_avg = (avg * count + value) / new_count, in floats
new_avg(avg, count, value) ==
    FDivInt(FAdd(FMul(avg, FromInt(count)), value), count + 1)

\* log_search(query, results_count, search_time, clicked_results) at time t;
\* clicked_results None is the empty list.  An integer bound to a REAL column
\* is stored as a float
log_search(query, results_count, search_time, clicked_results, t) ==
    LET hit == RowsWith(popular_searches, "query", query)
    IN  /\ t >= now
        /\ now' = t
        /\ search_queries' =
                Append(search_queries,
                       [query |-> query, results_count |-> results_count,
                        clicked_results |-> json_dumps(clicked_results),
                        search_time |-> search_time, timestamp |-> t])
        /\ popular_searches' =
                IF hit # {}
                THEN [i \in DOMAIN popular_searches |->
                        IF i \in hit
                        THEN LET row == popular_searches[i]
                             IN  [row EXCEPT
                                    !.search_count = row.search_count + 1,
                                    !.avg_results_count =
                                        new_avg(row.avg_results_count,
                                                row.search_count,
                                                FromInt(results_count)),
                                    !.avg_search_time =
                                        new_avg(row.avg_search_time,
                                                row.search_count,
                                                search_time),
                                    !.last_searched = t]
                        ELSE popular_searches[i]]
                ELSE Append(popular_searches,
                            [query |-> query, search_count |-> 1,
                             last_searched |-> t,
                             avg_results_count |-> FromInt(results_count),
                             avg_search_time |-> search_time])
        /\ search_categories' = track_categories(search_categories, query, t)
        /\ missing_docs' =
                IF results_count = 0
                THEN track_missing_docs(missing_docs, query, t)
                ELSE missing_docs
        /\ ret' = [op |-> "log_search",
                   arg |-> [query |-> query, results_count |-> results_count,
                            search_time |-> search_time,
                            clicked_results |-> clicked_results],
                   val |-> NULL, err |-> "none"]
        /\ UNCHANGED <<repositories, documents, documents_fts,
                       last_insert_rowid, txn>>

\* Time is counted in ticks, TicksPerDay of them to a day; a tick is written
\* as the date and the time of day it falls on
TicksPerDay == 2

DateOf(t) == t \div TicksPerDay

TimeOf(t) == t % TicksPerDay

\* the text SQLite stores for CURRENT_TIMESTAMP: 'YYYY-MM-DD HH:MM:SS'
CURRENT_TIMESTAMP(t) == <<DateOf(t), " ", TimeOf(t)>>

\* datetime.isoformat(): 'YYYY-MM-DDTHH:MM:SS.ffffff'
isoformat(t) == <<DateOf(t), "T", TimeOf(t)>>

\* the code of the character between the date and the time
CharCode(c) == IF c = " " THEN 32 ELSE 84

\* a >= b for two timestamp texts, compared as SQLite compares TEXT values:
\* character by character
TextGeq(a, b) ==
    \/ a[1] > b[1]
    \/ a[1] = b[1] /\ CharCode(a[2]) > CharCode(b[2])
    \/ a[1] = b[1] /\ a[2] = b[2] /\ a[3] >= b[3]

\* the integer nearest to scale * x, ties to the even one, for 0 <= x < 2^52
ScaledNearest(x, scale) ==
    Only({IF a.m = <<>> THEN 0
          ELSE IF a.e >= 0 THEN scale * BigToInt(BigShl(a.m, a.e))
          ELSE Only({BigToInt(BigDivSmall(s.q, 2).q)
                     + (IF BigOdd(s.q)
                           /\ (s.sticky \/ BigOdd(BigDivSmall(s.q, 2).q))
                        THEN 1 ELSE 0) :
                     s \in {BigShr(BigMulSmall(a.m, scale), (0 - a.e) - 1)}}) :
          a \in {x}})

\* round(x, n) for scale = 10^n
RoundDigits(x, scale) == Dec(ScaledNearest(x, scale), scale)

\* the rows of ids by ORDER BY search_count DESC LIMIT limit, rows of equal
\* count in rowid order; a negative limit is no limit
RECURSIVE PopularFrom(_, _)
PopularFrom(ids, limit) ==
    IF ids = {} \/ limit = 0 THEN <<>>
    ELSE LET i == CHOOSE i \in ids : \A j \in ids :
                    \/ popular_searches[i].search_count
                            > popular_searches[j].search_count
                    \/ /\ popular_searches[i].search_count
                            = popular_searches[j].search_count
                       /\ i <= j
             row == popular_searches[i]
         IN  <<[query |-> row.query, count |-> row.search_count,
                avg_results |-> RoundDigits(row.avg_results_count, 10),
                avg_time |-> RoundDigits(row.avg_search_time, 1000)]>>
             \o PopularFrom(ids \ {i}, limit - 1)

\* the rows a comparison of last_searched with the time since keeps
PopularSince(since) ==
    {i \in DOMAIN popular_searches :
        TextGeq(CURRENT_TIMESTAMP(popular_searches[i].last_searched), since)}

\* get_popular_searches(limit, days) at time t
get_popular_searches(limit, days, t) ==
    /\ t >= now
    /\ now' = t
    /\ ret' = [op |-> "get_popular_searches",
               arg |-> [limit |-> limit, days |-> days],
               val |-> PopularFrom(
                        PopularSince(isoformat(t - days * TicksPerDay)),
                        limit),
               err |-> "none"]
    /\ UNCHANGED <<repositories, documents, documents_fts,
                   last_insert_rowid, analytics, txn>>

\* ---------------------------------------------------------- quality scorer
\* A document content is a sequence of atoms: "tick" (a backtick), "#", " ", "NL" (a line
\* break), "w" (a word with none of the keywords in it), "LONG" (2000 letters
\* x), or one of the words and phrases the scorer looks for, as written.
AtomLen(a) ==
    CASE a \in {"tick", "#", " ", "NL", "w"} -> 1
      [] a = "LONG" -> 2000
      [] a = "Table of Contents" -> 17
      [] a = "contents" -> 8
      [] a = "index" -> 5
      [] a = "example" -> 7
      [] a = "sample" -> 6
      [] a = "demo" -> 4
      [] a = "Tutorial" -> 8
      [] a = "quickstart" -> 10
      [] a = "getting started" -> 15
      [] a = "playground" -> 10
      [] OTHER -> 1

\* str.lower() of an atom
AtomLower(a) ==
    CASE a = "Table of Contents" -> "table of contents"
      [] a = "Tutorial" -> "tutorial"
      [] OTHER -> a

\* number of characters of the atoms lo..hi, by halving
RECURSIVE AtomsLenRange(_, _, _)
AtomsLenRange(c, lo, hi) ==
    IF lo > hi THEN 0
    ELSE IF lo = hi THEN AtomLen(c[lo])
    ELSE LET mid == (lo + hi) \div 2
         IN  AtomsLenRange(c, lo, mid) + AtomsLenRange(c, mid + 1, hi)

\* number of characters of the atoms 1..k
AtomsLen(c, k) == AtomsLenRange(c, 1, k)

\* content[:n]: an atom the cut goes through keeps its first characters,
\* which for a word or phrase are letters without the keyword
Slice(c, n) ==
    IF AtomsLen(c, Len(c)) <= n THEN c
    ELSE LET whole == CHOOSE k \in 0..Len(c) :
                        /\ AtomsLen(c, k) <= n
                        /\ k < Len(c) => AtomsLen(c, k + 1) > n
         IN  SubSeq(c, 1, whole)
             \o (IF AtomsLen(c, whole) < n
                 THEN <<(IF c[whole + 1] = "LONG" THEN "LONG" ELSE "w")>>
                 ELSE <<>>)

\* the parts k.. joined with one space between two
RECURSIVE JoinSpace(_, _)
JoinSpace(parts, k) ==
    IF k > Len(parts) THEN <<>>
    ELSE IF k = Len(parts) THEN parts[k]
    ELSE parts[k] \o <<" ">> \o JoinSpace(parts, k + 1)

\* the atoms i..i+Len(pattern)-1 of c are the pattern
MatchAt(c, i, pattern) ==
    /\ i + Len(pattern) - 1 <= Len(c)
    /\ \A j \in DOMAIN pattern : c[i + j - 1] = pattern[j]

\* text.count(word) for a word or phrase that is an atom
CountAtom(c, word) == Cardinality({i \in DOMAIN c : AtomLower(c[i]) = word})

Fence == <<"tick", "tick", "tick">>

\* the number of matches of a fenced block (three backticks, anything,
\* three backticks; shortest match) scanning from atom i: an opening
\* fence, then the nearest closing fence after it
RECURSIVE CodeBlocksFrom(_, _)
CodeBlocksFrom(c, i) ==
    LET opens == {j \in i..Len(c) : MatchAt(c, j, Fence)}
    IN  IF opens = {} THEN 0
        ELSE LET open == CHOOSE j \in opens : \A k \in opens : j <= k
                 closes == {j \in (open + 3)..Len(c) : MatchAt(c, j, Fence)}
             IN  IF closes = {} THEN 0
                 ELSE LET close == CHOOSE j \in closes :
                                        \A k \in closes : j <= k
                      IN  1 + CodeBlocksFrom(c, close + 3)

\* the number of matches of inline code scanning from atom i: a backtick, at
\* least one other character, and the next backtick
RECURSIVE InlineCodeFrom(_, _)
InlineCodeFrom(c, i) ==
    LET opens == {j \in i..(Len(c) - 2) : c[j] = "tick" /\ c[j + 1] # "tick"}
    IN  IF opens = {} THEN 0
        ELSE LET open == CHOOSE j \in opens : \A k \in opens : j <= k
                 closes == {j \in (open + 2)..Len(c) : c[j] = "tick"}
             IN  IF closes = {} THEN 0
                 ELSE LET close == CHOOSE j \in closes :
                                        \A k \in closes : j <= k
                      IN  1 + InlineCodeFrom(c, close + 1)

\* the number of header lines: a line that starts with
\* one to six "#" and then white space
HeaderCount(c) ==
    Cardinality({i \in DOMAIN c :
        /\ i = 1 \/ c[i - 1] = "NL"
        /\ \E n \in 1..6 :
            /\ i + n <= Len(c)
            /\ \A j \in i..(i + n - 1) : c[j] = "#"
            /\ c[i + n] \in {" ", "NL"}})

\* path.lower() of the document paths
PathLower(path) ==
    CASE path = "README.md" -> "readme.md"
      [] path = "CONTRIBUTING.md" -> "contributing.md"
      [] path = "CHANGELOG.md" -> "changelog.md"
      [] path = "src/setup/HISTORY.txt" -> "src/setup/history.txt"
      [] OTHER -> path

\* the words the scorer looks for that are part of a lower-case path
PathWords(lower) ==
    CASE lower = "readme.md" -> {"readme"}
      [] lower = "docs/guide.md" -> {"docs/", "guide"}
      [] lower = "docs/api/install.md" -> {"docs/", "api", "install"}
      [] lower = "contributing.md" -> {"contributing"}
      [] lower = "examples/tutorial.md" -> {"example", "tutorial"}
      [] lower = "changelog.md" -> {"changelog"}
      [] lower = "src/setup/history.txt" -> {"setup", "history"}
      [] OTHER -> {}

\* path.count('/')
SlashCount(path) ==
    CASE path \in {"docs/guide.md", "examples/tutorial.md"} -> 1
      [] path \in {"docs/api/install.md", "src/setup/HISTORY.txt"} -> 2
      [] path = "w/x/y/z.md" -> 3
      [] OTHER -> 0

\* any(word in path for path in doc_paths for word in words), which is also
\* any(word in ' '.join(doc_paths) for word in words): no word has a space
AnyPathHas(docs, words) ==
    \E i \in DOMAIN docs :
        PathWords(PathLower(docs[i].path)) \cap words # {}

weights_completeness_first ==
    [completeness |-> Dec(30, 100), freshness |-> Dec(20, 100),
     structure |-> Dec(20, 100), examples |-> Dec(15, 100),
     community |-> Dec(10, 100), accessibility |-> Dec(10, 100)]

weights ==
    [completeness |-> Dec(25, 100), freshness |-> Dec(20, 100),
     structure |-> Dec(20, 100), examples |-> Dec(15, 100),
     community |-> Dec(10, 100), accessibility |-> Dec(10, 100)]

\* the metrics in the order of the scores dict
MetricOrder == <<"completeness", "freshness", "structure", "examples",
                 "community", "accessibility">>

FOne == FromInt(1)

\* score += amount when the condition holds
AddIf(score, condition, amount) ==
    IF condition THEN FAdd(score, amount) ELSE score

score_completeness(repo_data, docs) ==
    LET s1 == AddIf(FZero, AnyPathHas(docs, {"readme"}), Dec(3, 10))
        s2 == AddIf(s1, AnyPathHas(docs, {"docs/", "documentation/",
                                               "wiki/", "guide/"}),
                    Dec(2, 10))
        s3 == AddIf(s2, AnyPathHas(docs, {"api"}), Dec(1, 10))
        s4 == AddIf(s3, AnyPathHas(docs, {"install", "setup",
                                               "getting-started"}),
                    Dec(1, 10))
        s5 == AddIf(s4, AnyPathHas(docs, {"contributing"}), Dec(1, 10))
        s6 == AddIf(s5, AnyPathHas(docs, {"example", "tutorial",
                                               "sample"}), Dec(1, 10))
        s7 == AddIf(s6, AnyPathHas(docs, {"changelog", "history"}),
                    Dec(1, 10))
    IN  FMin(s7, FOne)

\* pushed_at is <<>> for '' or no value, <<"date", d>> for a text that starts
\* with the date of day number d, <<"text">> for a text strptime rejects;
\* today is the day number of datetime.now()
score_freshness(repo_data, docs, today) ==
    LET last_push == Get(repo_data, "pushed_at", <<>>)
    IN  IF last_push # <<>> /\ last_push[1] = "date"
        THEN LET days_ago == today - last_push[2]
             IN  IF days_ago < 30 THEN FOne
                 ELSE IF days_ago < 90 THEN Dec(8, 10)
                 ELSE IF days_ago < 180 THEN Dec(6, 10)
                 ELSE IF days_ago < 365 THEN Dec(4, 10)
                 ELSE Dec(2, 10)
        ELSE Dec(5, 10)

\* doc.get('content', '')[:n] of every document, joined with spaces
ContentCombined(docs, n) ==
    JoinSpace([i \in DOMAIN docs |->
                  Slice(Get(docs[i], "content", <<>>), n)], 1)

\* the paths with at least one '/', in order
DeepPaths(docs) ==
    SelectSeq([i \in DOMAIN docs |-> docs[i].path],
              LAMBDA path : SlashCount(path) > 0)

\* sum(depth_scores[1..k])
RECURSIVE DepthSum(_, _)
DepthSum(paths, k) ==
    IF k = 0 THEN FZero
    ELSE FAdd(DepthSum(paths, k - 1),
              FMin(FMul(FromInt(SlashCount(paths[k])), Dec(1, 10)),
                   Dec(3, 10)))

HasIndicator(c) ==
    \/ CountAtom(c, "table of contents") > 0
    \/ CountAtom(c, "index") > 0
    \/ \E i \in DOMAIN c : MatchAt(c, i, <<"#", "#", " ", "contents">>)

StructureOf(docs, deep, content_combined) ==
    LET s1 == AddIf(FZero, Len(docs) > 5, Dec(3, 10))
        s2 == IF deep # <<>>
              THEN FAdd(s1, FDivInt(DepthSum(deep, Len(deep)), Len(deep)))
              ELSE s1
        s3 == AddIf(s2, HasIndicator(content_combined), Dec(2, 10))
        s4 == AddIf(s3, HeaderCount(content_combined) > 10, Dec(2, 10))
    IN  FMin(s4, FOne)

score_structure(docs) ==
    Only({StructureOf(docs, deep, content_combined) :
          deep \in {DeepPaths(docs)},
          content_combined \in {ContentCombined(docs, 1000)}})

example_keywords == {"example", "sample", "demo", "tutorial", "quickstart",
                     "getting started"}

interactive_keywords == {"playground", "codesandbox", "stackblitz", "demo"}

KeywordCount(c, words) ==
    Cardinality({i \in DOMAIN c : AtomLower(c[i]) \in words})

ExamplesOf(content_combined) ==
    LET code_blocks == CodeBlocksFrom(content_combined, 1)
        keyword_count == KeywordCount(content_combined, example_keywords)
        inline_code == InlineCodeFrom(content_combined, 1)
        s1 == FAdd(FZero, FMin(FMul(FromInt(code_blocks), Dec(5, 100)),
                               Dec(4, 10)))
        s2 == FAdd(s1, FMin(FMul(FromInt(keyword_count), Dec(2, 100)),
                            Dec(3, 10)))
        s3 == AddIf(s2, KeywordCount(content_combined,
                                     interactive_keywords) > 0, Dec(2, 10))
        s4 == FAdd(s3, FMin(FMul(FromInt(inline_code), Dec(1, 100)),
                            Dec(1, 10)))
    IN  FMin(s4, FOne)

score_examples(docs) ==
    Only({ExamplesOf(content_combined) :
          content_combined \in {ContentCombined(docs, 5000)}})

score_community(repo_data) ==
    LET stars == Get(repo_data, "stargazers_count", 0)
        s1 == IF stars > 10000 THEN Dec(4, 10)
              ELSE IF stars > 1000 THEN Dec(3, 10)
              ELSE IF stars > 100 THEN Dec(2, 10)
              ELSE IF stars > 10 THEN Dec(1, 10)
              ELSE FZero
        s2 == AddIf(s1, Get(repo_data, "topics", <<>>) # <<>>, Dec(2, 10))
        s3 == AddIf(s2, Get(repo_data, "description", NULL) \notin {NULL, ""},
                    Dec(2, 10))
        s4 == AddIf(s3, Get(repo_data, "license", NULL) \notin {NULL, ""},
                    Dec(2, 10))
    IN  FMin(s4, FOne)

clear_names == {"install", "setup", "guide", "tutorial", "api", "reference"}

score_accessibility(docs) ==
    LET n == Len(docs)
        matching_files ==
            Cardinality({i \in DOMAIN docs :
                PathWords(PathLower(docs[i].path)) \cap clear_names
                    # {}})
        s1 == AddIf(FZero,
                    \E i \in DOMAIN docs :
                        PathLower(docs[i].path)
                            \in {"readme.md", "readme.rst", "readme.txt"},
                    Dec(4, 10))
        s2 == FAdd(s1, FMin(FMul(FromInt(matching_files), Dec(1, 10)),
                            Dec(3, 10)))
        s3 == IF 3 <= n /\ n <= 20 THEN FAdd(s2, Dec(3, 10))
              ELSE IF n > 20 THEN FAdd(s2, Dec(1, 10))
              ELSE s2
    IN  FMin(s3, FOne)

\* the integer nearest to 100 * x, ties to the even one, for 0 <= x < 2^52
Hundredths(x) ==
    Only({IF a.m = <<>> THEN 0
          ELSE IF a.e >= 0 THEN 100 * BigToInt(BigShl(a.m, a.e))
          ELSE Only({BigToInt(BigDivSmall(s.q, 2).q)
                     + (IF BigOdd(s.q)
                           /\ (s.sticky \/ BigOdd(BigDivSmall(s.q, 2).q))
                        THEN 1 ELSE 0) :
                     s \in {BigShr(BigMulSmall(a.m, 100), (0 - a.e) - 1)}}) :
          a \in {x}})

\* round(x, 2): the float nearest to the two-decimal number nearest to x
Round2(x) == Dec(Hundredths(x), 100)

grade_bands_without_minus ==
    << [grade |-> "A+", least |-> Dec(90, 100)],
       [grade |-> "A", least |-> Dec(85, 100)],
       [grade |-> "B+", least |-> Dec(75, 100)],
       [grade |-> "B", least |-> Dec(70, 100)],
       [grade |-> "C+", least |-> Dec(60, 100)],
       [grade |-> "C", least |-> Dec(55, 100)],
       [grade |-> "C-", least |-> Dec(50, 100)],
       [grade |-> "D", least |-> Dec(40, 100)] >>

\* the if-chain of _get_grade, top down: the grade and the least score of it
grade_bands ==
    << [grade |-> "A+", least |-> Dec(90, 100)],
       [grade |-> "A", least |-> Dec(85, 100)],
       [grade |-> "A-", least |-> Dec(80, 100)],
       [grade |-> "B+", least |-> Dec(75, 100)],
       [grade |-> "B", least |-> Dec(70, 100)],
       [grade |-> "B-", least |-> Dec(65, 100)],
       [grade |-> "C+", least |-> Dec(60, 100)],
       [grade |-> "C", least |-> Dec(55, 100)],
       [grade |-> "C-", least |-> Dec(50, 100)],
       [grade |-> "D", least |-> Dec(40, 100)] >>

InBandStrict(score, least) == FLess(least, score)

\* score >= least
InBand(score, least) == ~FLess(score, least)

\* the first branch of the chain that takes the score, F when none does
get_grade(score) ==
    Only({IF taking = {} THEN "F"
          ELSE grade_bands[CHOOSE i \in taking :
                              \A j \in taking : i <= j].grade :
          taking \in {{i \in DOMAIN grade_bands :
                          \E s \in {score} :
                              InBand(s, grade_bands[i].least)}}})

\* sum(scores[metric] * weights[metric]) over the first k metrics
RECURSIVE WeightedSum(_, _)
WeightedSum(scores, k) ==
    IF k = 0 THEN FZero
    ELSE FAdd(WeightedSum(scores, k - 1),
              FMul(scores[MetricOrder[k]], weights[MetricOrder[k]]))

score_repository(repo_data, docs, today) ==
    Only({Only({[total_score |-> Round2(total_score),
                 metrics |-> scores,
                 grade |-> get_grade(total_score)] :
                total_score \in {WeightedSum(scores, Len(MetricOrder))}}) :
          scores \in
            {[completeness |-> score_completeness(repo_data, docs),
              freshness |-> score_freshness(repo_data, docs, today),
              structure |-> score_structure(docs),
              examples |-> score_examples(docs),
              community |-> score_community(repo_data),
              accessibility |-> score_accessibility(docs)]}})

suggestion_rules_one_cutoff ==
    << [metric |-> "completeness", below |-> Dec(5, 10),
        text |-> "Add more comprehensive documentation including API references and guides"],
       [metric |-> "freshness", below |-> Dec(5, 10),
        text |-> "Update documentation to reflect recent changes"],
       [metric |-> "structure", below |-> Dec(5, 10),
        text |-> "Organize documentation with clear hierarchy and table of contents"],
       [metric |-> "examples", below |-> Dec(5, 10),
        text |-> "Add more code examples and tutorials"],
       [metric |-> "community", below |-> Dec(5, 10),
        text |-> "Improve repository metadata: add topics, description, and license"],
       [metric |-> "accessibility", below |-> Dec(5, 10),
        text |-> "Ensure README is present and use clear, descriptive file names"] >>

\* the checks of generate_improvement_suggestions in their order
suggestion_rules ==
    << [metric |-> "completeness", below |-> Dec(7, 10),
        text |-> "Add more comprehensive documentation including API references and guides"],
       [metric |-> "freshness", below |-> Dec(5, 10),
        text |-> "Update documentation to reflect recent changes"],
       [metric |-> "structure", below |-> Dec(6, 10),
        text |-> "Organize documentation with clear hierarchy and table of contents"],
       [metric |-> "examples", below |-> Dec(5, 10),
        text |-> "Add more code examples and tutorials"],
       [metric |-> "community", below |-> Dec(5, 10),
        text |-> "Improve repository metadata: add topics, description, and license"],
       [metric |-> "accessibility", below |-> Dec(6, 10),
        text |-> "Ensure README is present and use clear, descriptive file names"] >>

\* the suggestions of the rules k..
RECURSIVE SuggestionsFrom(_, _)
SuggestionsFrom(metrics, k) ==
    IF k > Len(suggestion_rules) THEN <<>>
    ELSE LET rule == suggestion_rules[k]
         IN  (IF FLess(Get(metrics, rule.metric, FZero), rule.below)
              THEN <<rule.text>> ELSE <<>>)
             \o SuggestionsFrom(metrics, k + 1)

generate_improvement_suggestions(scores) ==
    SuggestionsFrom(Get(scores, "metrics", [m \in {} |-> FZero]), 1)

\* ------------------------------------------------------------- indexing
\* the loop of index_repository over doc_files[k..]: a file whose content
\* came back is added, every other is skipped
RECURSIVE IndexFrom(_, _, _, _, _, _, _, _, _)
IndexFrom(repos, docs, fts, lir, repo_id, doc_files, fetched, k, t) ==
    IF k > Len(doc_files)
    THEN [documents |-> docs, documents_fts |-> fts,
          last_insert_rowid |-> lir, docs_indexed |-> 0]
    ELSE LET content == fetched[doc_files[k]]
         IN  IF content = <<>>
             THEN IndexFrom(repos, docs, fts, lir, repo_id, doc_files,
                            fetched, k + 1, t)
             ELSE LET a == AddDocument(repos, docs, fts, lir, repo_id,
                                       doc_files[k], content[1], content[2],
                                       t)
                      rest == IndexFrom(repos, a.documents, a.documents_fts,
                                        a.last_insert_rowid, repo_id,
                                        doc_files, fetched, k + 1, t)
                  IN  [rest EXCEPT !.docs_indexed = @ + 1]

\* the files index_repository goes through: the curated doc_paths if there
\* are any, else what discover_documentation_files answers
DocFiles(repo_data, discovered) ==
    IF repo_data.source = "curated" /\ Get(repo_data, "doc_paths", <<>>) # <<>>
    THEN repo_data.doc_paths ELSE discovered

\* index_repository(repo_data) at time t on the tables given, repo_data
\* having its id: the tables afterwards, the value returned and the
\* exception.  discovered is what discover_documentation_files answers and
\* fetched[path] what fetch_file_content answers, with its hash, <<>> for no
\* content
IndexRepository(repos, docs, fts, lir, repo_data, discovered, fetched, t) ==
    LET doc_files == DocFiles(repo_data, discovered)
        r == IndexFrom(repos, docs, fts, lir, repo_data.id, doc_files,
                       fetched, 1, t)
    IN  IF doc_files = <<>>
        THEN [repositories |-> repos, documents |-> docs,
              documents_fts |-> fts, last_insert_rowid |-> lir,
              val |-> NULL, err |-> "ValueError"]
        ELSE [repositories |->
                [i \in DOMAIN repos |->
                    IF i = repo_data.id
                    THEN [repos[i] EXCEPT !.last_indexed = t] ELSE repos[i]],
              documents |-> r.documents, documents_fts |-> r.documents_fts,
              last_insert_rowid |-> r.last_insert_rowid,
              val |-> r.docs_indexed, err |-> "none"]

\* table indexing_history (repo_id, status, documents_indexed, ...): the
\* schema creates it and no statement of the program writes to it
indexing_history == <<>>

\* a row of repositories as get_repository and list_repositories return it
RepoDict(repos, id) ==
    [repos[id] EXCEPT !.doc_paths = json_loads(@), !.topics = json_loads(@),
                      !.quality_metrics = json_loads(@)] @@ [id |-> id]

\* index_repository(repo_data) at time t for the row repo_id as
\* list_repositories returns it
index_repository(repo_id, discovered, fetched, t) ==
    LET repo_data == RepoDict(repositories, repo_id)
        r == IndexRepository(repositories, documents, documents_fts,
                             last_insert_rowid, repo_data, discovered,
                             fetched, t)
    IN  /\ repo_id \in DOMAIN repositories
        /\ t >= now
        /\ now' = t
        /\ repositories' = r.repositories
        /\ documents' = r.documents
        /\ documents_fts' = r.documents_fts
        /\ last_insert_rowid' = r.last_insert_rowid
        /\ ret' = [op |-> "index_repository",
                   arg |-> [repo_id |-> repo_id,
                            doc_files |-> DocFiles(repo_data, discovered),
                            answered |-> {p \in Paths : fetched[p] # <<>>}],
                   val |-> r.val, err |-> r.err]
        /\ UNCHANGED <<analytics, txn>>

\* ------------------------------------------------------ index_repositories
CACHE_HOURS == 168

\* list_repositories(filters) with the source filter, "" for none: the rows
\* of ids by ORDER BY quality_score DESC, stars DESC, rows that tie in rowid
\* order
RECURSIVE ListFrom(_, _)
ListFrom(repos, ids) ==
    IF ids = {} THEN <<>>
    ELSE LET i == CHOOSE i \in ids : \A j \in ids :
                    \/ repos[i].quality_score > repos[j].quality_score
                    \/ /\ repos[i].quality_score = repos[j].quality_score
                       /\ repos[i].stars > repos[j].stars
                    \/ /\ repos[i].quality_score = repos[j].quality_score
                       /\ repos[i].stars = repos[j].stars
                       /\ i <= j
         IN  <<RepoDict(repos, i)>> \o ListFrom(repos, ids \ {i})

ListRepositories(repos, source) ==
    ListFrom(repos, {i \in DOMAIN repos :
                        source = "" \/ repos[i].source = source})

\* the tables and counters after the try statement around index_repository,
\* r being what index_repository did
Outcome(st, r, full_name) ==
    [repositories |-> r.repositories, documents |-> r.documents,
     documents_fts |-> r.documents_fts,
     last_insert_rowid |-> r.last_insert_rowid,
     indexed_count |-> st.indexed_count + (IF r.err = "none" THEN 1 ELSE 0),
     error_count |-> st.error_count + (IF r.err = "none" THEN 0 ELSE 1),
     output |-> Append(st.output, [full_name |-> full_name, err |-> r.err]),
     err |-> "none"]

\* a loop that lets the exception of index_repository through
RECURSIVE IndexListedUnguarded(_, _, _, _, _)
IndexListedUnguarded(st, listed, k, github, t) ==
    IF k > Len(listed) THEN st
    ELSE Only({
        LET r == IndexRepository(s.repositories, s.documents,
                    s.documents_fts, s.last_insert_rowid, listed[k],
                    github.files[listed[k].full_name], github.fetched, t)
        IN  IF r.err # "none" THEN [s EXCEPT !.err = r.err]
            ELSE IndexListedUnguarded(Outcome(s, r, listed[k].full_name),
                                      listed, k + 1, github, t) :
        s \in {st}})

\* for repo in curated_repos: try index_repository(repo), from the k-th on.
\* github.files[full_name] is what discover_documentation_files answers and
\* github.fetched[path] what fetch_file_content answers
RECURSIVE IndexListed(_, _, _, _, _)
IndexListed(st, listed, k, github, t) ==
    IF k > Len(listed) THEN st
    ELSE Only({
        LET r == IndexRepository(s.repositories, s.documents,
                    s.documents_fts, s.last_insert_rowid, listed[k],
                    github.files[listed[k].full_name], github.fetched, t)
        IN  IndexListed(Outcome(s, r, listed[k].full_name), listed, k + 1,
                        github, t) :
        s \in {st}})

\* for repo_data in new_repos[:count], from the k-th on: upsert_repository,
\* whose exception ends the whole call, then try index_repository with the
\* id it returned
RECURSIVE IndexDiscovered(_, _, _, _, _)
IndexDiscovered(st, new_repos, k, github, t) ==
    IF k > Len(new_repos) THEN st
    ELSE Only({
        LET repo_data == new_repos[k] @@ [source |-> "discovered"]
            u == Upsert(s.repositories, s.last_insert_rowid, repo_data)
            r == IndexRepository(u.repositories, s.documents,
                    s.documents_fts, u.last_insert_rowid,
                    repo_data @@ [id |-> u.val],
                    github.files[repo_data.full_name], github.fetched, t)
        IN  IF u.err # "none"
            THEN [s EXCEPT !.repositories = u.repositories,
                           !.last_insert_rowid = u.last_insert_rowid,
                           !.err = u.err]
            ELSE IndexDiscovered(Outcome(s, r, repo_data.full_name),
                                 new_repos, k + 1, github, t) :
        s \in {st}})

\* datetime.now() - last_indexed < timedelta(hours=CACHE_HOURS), in ticks
Fresh(last_indexed, t) ==
    (t - last_indexed) * 24 < CACHE_HOURS * TicksPerDay

\* the repositories of the update mode that are due: never indexed, or
\* indexed CACHE_HOURS ago or longer
Due(listed, t) ==
    SelectSeq(listed, LAMBDA repo :
        IsNull(repo.last_indexed) \/ ~Fresh(repo.last_indexed, t))

\* index_repositories(mode, min_stars, count) at time t on the tables of the
\* state.  curated is config['curated_repositories'] with the answers of
\* get_repository_info, found is what search_repositories(min_stars, count)
\* answers.  The value is the counters, the line written per repository and
\* the numbers of get_statistics; the text is not modelled
IndexRepositories(mode, count, curated, found, github, t) ==
    LET start == [repositories |-> repositories, documents |-> documents,
                  documents_fts |-> documents_fts,
                  last_insert_rowid |-> last_insert_rowid,
                  indexed_count |-> 0, error_count |-> 0, output |-> <<>>,
                  err |-> "none"]
        imported ==
            IF mode \notin {"smart", "curated"} THEN start
            ELSE Only({[start EXCEPT !.repositories = i.repositories,
                                     !.last_insert_rowid = i.last_insert_rowid,
                                     !.err = i.err] :
                       i \in {ImportFrom(repositories, last_insert_rowid,
                                         curated, 1)}})
        after_curated ==
            IF mode \notin {"smart", "curated"} \/ imported.err # "none"
            THEN imported
            ELSE IndexListed(imported,
                             ListRepositories(imported.repositories,
                                              "curated"),
                             1, github, t)
        after_discover ==
            IF mode \notin {"smart", "discover"} \/ after_curated.err # "none"
            THEN after_curated
            ELSE Only({
                LET existing == {s.repositories[i].full_name :
                                    i \in DOMAIN s.repositories}
                    new_repos == SelectSeq(found,
                                    LAMBDA r : r.full_name \notin existing)
                IN  IndexDiscovered(s,
                        SubSeq(new_repos, 1,
                               IF count < Len(new_repos)
                               THEN count ELSE Len(new_repos)),
                        1, github, t) :
                s \in {after_curated}})
    IN  IF mode = "update"
        THEN IndexListed(start, Due(ListRepositories(repositories, ""), t),
                         1, github, t)
        ELSE after_discover

\* the numbers get_statistics reads for the summary
Statistics(repos, docs) ==
    [total_repositories |-> Cardinality(DOMAIN repos),
     curated |-> Cardinality({i \in DOMAIN repos :
                                repos[i].source = "curated"}),
     discovered |-> Cardinality({i \in DOMAIN repos :
                                    repos[i].source = "discovered"}),
     total_documents |-> Cardinality(DOMAIN docs)]

index_repositories(mode, count, curated, found, github, t) ==
    \E r \in {IndexRepositories(mode, count, curated, found, github, t)} :
        /\ t >= now
        /\ now' = t
        /\ repositories' = r.repositories
        /\ documents' = r.documents
        /\ documents_fts' = r.documents_fts
        /\ last_insert_rowid' = r.last_insert_rowid
        /\ ret' = [op |-> "index_repositories",
                   arg |-> [mode |-> mode, count |-> count,
                            curated |-> curated, found |-> found],
                   val |-> IF r.err # "none" THEN NULL
                           ELSE [indexed_count |-> r.indexed_count,
                                 error_count |-> r.error_count,
                                 output |-> r.output,
                                 stats |-> Statistics(r.repositories,
                                                      r.documents)],
                   err |-> r.err]
        /\ UNCHANGED <<analytics, txn>>

\* ------------------------------------------------- concurrent connections
\* The database file is in WAL mode, and the sqlite3 module opens a
\* transaction before the first INSERT, UPDATE or DELETE a connection
\* executes; the transaction lasts until conn.commit().  Until then the
\* effects of its statements are in txn, where the writing connection alone
\* sees them: a read on another connection runs against the committed tables.
\* One connection writes at a time.

\* add_document's INSERT ... ON CONFLICT DO UPDATE, up to the row it writes
add_document_row(repo_id, path, content, content_hash, t) ==
    LET a == AddDocument(repositories, documents, documents_fts,
                         last_insert_rowid, repo_id, path, content,
                         content_hash, t)
    IN  /\ txn.pc = "idle"
        /\ t >= now
        /\ now' = t
        /\ last_insert_rowid' = a.last_insert_rowid
        /\ txn' = [pc |-> "row written", op |-> "add_document",
                   arg |-> [repo_id |-> repo_id, path |-> path,
                            content |-> content,
                            content_hash |-> content_hash, t |-> t],
                   documents |-> a.documents,
                   documents_fts |-> documents_fts,
                   val |-> NULL]
        /\ UNCHANGED <<repositories, documents, documents_fts, ret,
                       analytics>>

\* the trigger documents_ai or documents_au, which ends the statement
add_document_trigger ==
    /\ txn.pc = "row written"
    /\ txn' = [txn EXCEPT
                !.pc = "written",
                !.documents_fts =
                    AddDocument(repositories, documents, documents_fts,
                                last_insert_rowid, txn.arg.repo_id,
                                txn.arg.path, txn.arg.content,
                                txn.arg.content_hash,
                                txn.arg.t).documents_fts]
    /\ UNCHANGED <<repositories, documents, documents_fts,
                   last_insert_rowid, now, ret, analytics>>

\* rebuild_fts_index's DELETE FROM documents_fts
rebuild_clear ==
    /\ txn.pc = "idle"
    /\ txn' = [pc |-> "cleared", op |-> "rebuild_fts_index", arg |-> NULL,
               documents |-> documents, documents_fts |-> <<>>,
               val |-> NULL]
    /\ UNCHANGED <<repositories, documents, documents_fts,
                   last_insert_rowid, now, ret, analytics>>

\* rebuild_fts_index's INSERT INTO documents_fts ... SELECT
rebuild_repopulate ==
    LET rows == JoinDocsRepos(DOMAIN documents)
    IN  /\ txn.pc = "cleared"
        /\ txn' = [txn EXCEPT !.pc = "written", !.documents_fts = rows,
                              !.val = Len(rows)]
        /\ last_insert_rowid' =
                IF Len(rows) > 0 THEN Len(rows) ELSE last_insert_rowid
        /\ UNCHANGED <<repositories, documents, documents_fts, now, ret,
                       analytics>>

\* conn.commit(): the tables of the transaction become the committed ones
commit ==
    /\ txn.pc = "written"
    /\ documents' = txn.documents
    /\ documents_fts' = txn.documents_fts
    /\ txn' = NoTxn
    /\ ret' = [op |-> txn.op, arg |-> txn.arg, val |-> txn.val,
               err |-> "none"]
    /\ UNCHANGED <<repositories, last_insert_rowid, now, analytics>>

\* list_repositories(filters) on a connection of its own
list_repositories(source) ==
    /\ ret' = [op |-> "list_repositories", arg |-> [source |-> source],
               val |-> ListRepositories(repositories, source),
               err |-> "none"]
    /\ UNCHANGED <<repositories, documents, documents_fts,
                   last_insert_rowid, now, analytics, txn>>

\* get_statistics() on a connection of its own
get_statistics ==
    /\ ret' = [op |-> "get_statistics", arg |-> NULL,
               val |-> Statistics(repositories, documents),
               err |-> "none"]
    /\ UNCHANGED <<repositories, documents, documents_fts,
                   last_insert_rowid, now, analytics, txn>>

\* ------------------------------------------------------- response limiter
\* A text is a sequence of runs: n characters of w UTF-8 bytes each.  A run
\* of an assembled payload also says what it belongs to: kind "item" with
\* a = index of the item, kind "more" with a = the count the marker states,
\* kind "showing" with a = shown and b = total, kind "clamp" for the
\* truncation note, kind "fixed" for everything else.
Txt(n, w) ==
    IF n = 0 THEN <<>>
    ELSE <<[n |-> n, w |-> w, kind |-> "in", a |-> 0, b |-> 0]>>

\* None where a text is expected
NullText == <<[n |-> 0, w |-> 0, kind |-> "None", a |-> 0, b |-> 0]>>

\* sum of f over the runs lo..hi of t, by halving
RECURSIVE SumRuns(_, _, _, _)
SumRuns(f(_), t, lo, hi) ==
    IF lo > hi THEN 0
    ELSE IF lo = hi THEN f(t[lo])
    ELSE LET mid == (lo + hi) \div 2
         IN  SumRuns(f, t, lo, mid) + SumRuns(f, t, mid + 1, hi)

\* len(text)
TLen(t) == LET f(r) == r.n IN SumRuns(f, t, 1, Len(t))

\* len(text.encode())
TBytes(t) == LET f(r) == r.n * r.w IN SumRuns(f, t, 1, Len(t))

\* text[:k]
Prefix(t, k) ==
    LET before(i) == LET f(r) == r.n IN SumRuns(f, t, 1, i - 1)
        kept == {i \in DOMAIN t : before(i) < k}
    IN  [i \in 1..Cardinality(kept) |->
            IF before(i) + t[i].n <= k THEN t[i]
            ELSE [t[i] EXCEPT !.n = k - before(i)]]

Tag(t, kind, a, b) ==
    [i \in DOMAIN t |-> [t[i] EXCEPT !.kind = kind, !.a = a, !.b = b]]

\* number of characters of the runs of one kind and index
TagChars(t, kind, a) ==
    LET f(r) == IF r.kind = kind /\ r.a = a THEN r.n ELSE 0
    IN  SumRuns(f, t, 1, Len(t))

\* '\n'.join(lines[lo..hi]), by halving
RECURSIVE JoinRange(_, _, _)
JoinRange(lines, lo, hi) ==
    IF lo > hi THEN <<>>
    ELSE IF lo = hi THEN lines[lo]
    ELSE LET mid == (lo + hi) \div 2
         IN  JoinRange(lines, lo, mid) \o Tag(Txt(1, 1), "fixed", 0, 0)
                \o JoinRange(lines, mid + 1, hi)

\* '\n'.join(lines)
JoinLines(lines) == JoinRange(lines, 1, Len(lines))

\* number of decimal digits of a natural number
RECURSIVE Digits(_)
Digits(n) == IF n < 10 THEN 1 ELSE 1 + Digits(n \div 10)

\* f"{n}" and f"{n:,}"
Str(n) == Txt(Digits(n), 1)

StrCommas(n) == Txt(Digits(n) + (Digits(n) - 1) \div 3, 1)

\* a literal of the source: e emoji of w bytes, then n ASCII characters
Lit(e, w, n) == Tag(Txt(e, w) \o Txt(n, 1), "fixed", 0, 0)

\* truthiness of a text value
Truthy(t) == t # NullText /\ TLen(t) > 0

MAX_RESPONSE_SIZE == 512000

MAX_CONTENT_PREVIEW == 1000

MAX_SEARCH_RESULTS == 20

\* truncate_text; len(None) raises TypeError, which the callers model
truncate_text(text, max_length) ==
    IF TLen(text) <= max_length THEN text
    ELSE Prefix(text, max_length - 4) \o Txt(4, 1)

\* length of the JSON text of a string: ensure_ascii escapes a character
\* outside ASCII as \uXXXX, a character outside the BMP as two of them
RECURSIVE JsonStrLen(_)
JsonStrLen(t) ==
    IF t = NullText THEN 4
    ELSE IF t = <<>> THEN 2
    ELSE Head(t).n * (CASE Head(t).w = 1 -> 1 [] Head(t).w = 4 -> 12
                        [] OTHER -> 6)
            + JsonStrLen(Tail(t))

\* length of the JSON text of a quality score given in hundredths
JsonScoreLen(q) ==
    Digits(q \div 100) + 1 + (IF q % 10 = 0 THEN 1 ELSE 2)

\* estimate_size of a row of search_documents: len(json.dumps(result)) with
\* the keys full_name, stars, category, description, source, quality_score,
\* path, snippet, rank; a bm25 rank prints as 22 characters
estimate_size(r) ==
    2 + (9 + 4 + JsonStrLen(r.full_name)) + 2
      + (5 + 4 + Digits(r.stars)) + 2
      + (8 + 4 + JsonStrLen(r.category)) + 2
      + (11 + 4 + JsonStrLen(r.description)) + 2
      + (6 + 4 + JsonStrLen(r.source)) + 2
      + (13 + 4 + JsonScoreLen(r.quality_score)) + 2
      + (4 + 4 + JsonStrLen(r.path)) + 2
      + (7 + 4 + JsonStrLen(r.snippet)) + 2
      + (4 + 4 + 22)

\* the row after the in-place truncation of snippet and description
TruncatedResult(r) ==
    [r EXCEPT !.snippet = truncate_text(r.snippet, 200),
              !.description = truncate_text(r.description, 100)]

\* a limiting that passes over a result that does not fit and goes on with
\* the next one
RECURSIVE LimitFromSkipping(_, _, _)
LimitFromSkipping(results, i, total_size) ==
    IF i > Len(results) \/ i > MAX_SEARCH_RESULTS
    THEN [rows |-> <<>>, err |-> "none"]
    ELSE IF results[i].snippet = NullText \/ results[i].description = NullText
    THEN [rows |-> <<>>, err |-> "TypeError"]
    ELSE LET r == TruncatedResult(results[i])
             result_size == estimate_size(r)
         IN  IF 10 * (total_size + result_size) > MAX_RESPONSE_SIZE * 8
             THEN LimitFromSkipping(results, i + 1, total_size)
             ELSE LET rest == LimitFromSkipping(results, i + 1,
                                                total_size + result_size)
                  IN  [rows |-> <<r>> \o rest.rows, err |-> rest.err]

\* limit_search_results from result i on with total_size accumulated so far:
\* the rows kept, and whether truncate_text raised on a None
RECURSIVE LimitFrom(_, _, _)
LimitFrom(results, i, total_size) ==
    IF i > Len(results) \/ i > MAX_SEARCH_RESULTS
    THEN [rows |-> <<>>, err |-> "none"]
    ELSE IF results[i].snippet = NullText \/ results[i].description = NullText
    THEN [rows |-> <<>>, err |-> "TypeError"]
    ELSE LET r == TruncatedResult(results[i])
             result_size == estimate_size(r)
         IN  IF 10 * (total_size + result_size) > MAX_RESPONSE_SIZE * 8
             THEN [rows |-> <<>>, err |-> "none"]
             ELSE LET rest == LimitFrom(results, i + 1,
                                        total_size + result_size)
                  IN  [rows |-> <<r>> \o rest.rows, err |-> rest.err]

limit_search_results(results) == LimitFrom(results, 1, 0)

\* the lines format_search_response writes for result r, the i-th shown
SearchItemLines(r, i) ==
    LET line(t) == <<Tag(t, "item", i, 0)>>
    IN  line(Lit(1, 4, 1) \o r.full_name \o Lit(0, 1, 1) \o Lit(1, 3, 1)
                \o StrCommas(r.stars))
        \o (IF "language" \in DOMAIN r /\ Truthy(r.language)
            THEN line(Lit(0, 1, 13) \o r.language) ELSE <<>>)
        \o (IF Truthy(r.path) THEN line(Lit(0, 1, 9) \o r.path) ELSE <<>>)
        \o (IF Truthy(r.snippet)
            THEN line(Lit(0, 1, 12) \o r.snippet) ELSE <<>>)
        \o << <<>> >>

RECURSIVE SearchLines(_, _)
SearchLines(rows, i) ==
    IF i > Len(rows) THEN <<>>
    ELSE SearchItemLines(rows[i], i) \o SearchLines(rows, i + 1)

\* format_search_response: the payload, or the exception raised
format_search_response(results, query) ==
    IF results = <<>>
    THEN [val |-> Lit(0, 1, 22) \o Tag(query, "fixed", 0, 0) \o Lit(0, 1, 1),
          err |-> "none"]
    ELSE LET limited == limit_search_results(results)
             output ==
                << Lit(1, 4, 21) \o Tag(query, "fixed", 0, 0) \o Lit(0, 1, 1),
                   Tag(Txt(8, 1) \o Str(Len(limited.rows)) \o Txt(4, 1)
                        \o Str(Len(results)) \o Txt(9, 1),
                       "showing", Len(limited.rows), Len(results)) >>
                \o SearchLines(limited.rows, 1)
             result_text == JoinLines(output)
         IN  IF limited.err # "none"
             THEN [val |-> <<>>, err |-> limited.err]
             ELSE IF TLen(result_text) > MAX_RESPONSE_SIZE
             THEN [val |-> Prefix(result_text, MAX_RESPONSE_SIZE - 100)
                            \o Tag(Txt(41, 1), "clamp", 0, 0),
                   err |-> "none"]
             ELSE [val |-> result_text, err |-> "none"]

\* the section format_docs_response builds for document i
DocSection(doc, i) ==
    LET line(t) == <<Tag(t, "item", i, 0)>>
    IN  line(Txt(50, 1))
        \o line(Lit(1, 4, 1) \o doc.path)
        \o line(Txt(50, 1))
        \o <<Tag(truncate_text(doc.content, MAX_CONTENT_PREVIEW),
                 "item", i, 0)>>
        \o (IF Truthy(doc.content) /\ TLen(doc.content) > MAX_CONTENT_PREVIEW
            THEN line(Txt(67, 1)) ELSE <<>>)
        \o << <<>> >>

\* "\n[{len(docs) - i} more documents not shown due to size limits]", where
\* i is the 0-based index of the first document that did not fit
MoreDocsMarker(n_docs, i) ==
    Tag(Txt(2, 1) \o Str(n_docs - i) \o Txt(45, 1), "more", n_docs - i, 0)

\* the loop of format_docs_response from document i on (0-based i - 1)
RECURSIVE DocsFrom(_, _, _)
DocsFrom(docs, i, total_size) ==
    IF i > Len(docs) THEN <<>>
    ELSE LET section == DocSection(docs[i], i)
             section_size == TLen(JoinLines(section))
         IN  IF 10 * (total_size + section_size) > MAX_RESPONSE_SIZE * 9
             THEN << MoreDocsMarker(Len(docs), i - 1) >>
             ELSE section \o DocsFrom(docs, i + 1, total_size + section_size)

format_docs_response(docs, repo_name) ==
    IF docs = <<>>
    THEN [val |-> Lit(0, 1, 28) \o Tag(repo_name, "fixed", 0, 0)
                    \o Lit(0, 1, 1),
          err |-> "none"]
    ELSE IF \E i \in DOMAIN docs : docs[i].content = NullText
    THEN [val |-> <<>>, err |-> "TypeError"]
    ELSE LET head == Lit(1, 4, 19) \o Tag(repo_name, "fixed", 0, 0)
                        \o Lit(0, 1, 1)
         IN  [val |-> JoinLines(<<head>> \o DocsFrom(docs, 1, TLen(head))),
              err |-> "none"]

\* the line format_list_response writes for item i
ListLine(item, i) ==
    Tag(Lit(1, 3, 1) \o item.name
        \o (IF item.stars # 0
            THEN Lit(0, 1, 1) \o Lit(1, 3, 1) \o StrCommas(item.stars)
            ELSE <<>>)
        \o (IF Truthy(item.category)
            THEN Txt(2, 1) \o item.category \o Txt(1, 1) ELSE <<>>)
        \o (IF Truthy(item.description)
            THEN Txt(3, 1) \o truncate_text(item.description, 60) ELSE <<>>),
        "item", i, 0)

format_list_response(items, title) ==
    LET shown == IF Len(items) > 50 THEN 50 ELSE Len(items)
    IN  [val |-> JoinLines(
                    << Tag(title, "fixed", 0, 0) \o Lit(0, 1, 1) >>
                    \o [i \in 1..shown |-> ListLine(items[i], i)]
                    \o (IF Len(items) > 50
                        THEN << Tag(Txt(9, 1) \o Str(Len(items) - 50)
                                    \o Txt(5, 1),
                                    "more", Len(items) - 50, 0) >>
                        ELSE <<>>)),
         err |-> "none"]

\* ---------------------------------------------------------- unified_search
\* a text column of a row as dict(row) hands it on: a str, None for NULL
TextOf(v) == IF v = NULL THEN NullText ELSE Txt(Len(v), 1)

\* snippet(documents_fts, 2, '<b>', '</b>', '...', 64): the content with
\* every token that matches a term between <b> and </b>
SnippetOf(content, terms) ==
    Txt(Len(content)
            + 7 * Cardinality({j \in DOMAIN unicode61(content) :
                    \E k \in DOMAIN terms : unicode61(content)[j] = terms[k]}),
        1)

\* a row of search_documents as the dict the formatter is given
ResultDict(x, terms) ==
    [full_name |-> TextOf(x.full_name), stars |-> x.stars,
     category |-> TextOf(x.category), description |-> TextOf(x.description),
     source |-> TextOf(x.source), quality_score |-> x.quality_score,
     path |-> TextOf(x.path), snippet |-> SnippetOf(x.snippet[2], terms),
     rank |-> x.rank]

\* unified_search(query, min_stars, category, source), filters being the
\* dict it builds of the arguments that are not None: initialize(), then
\* db.search_documents, then ResponseLimiter.format_search_response.  An
\* exception of either call leaves the tool
unified_search(query, filters) ==
    \E terms \in {QueryTerms(query)} :
    \E results \in {IF terms = NULL THEN <<>>
                    ELSE Limit(Sorted(SearchJoin(terms, filters)))} :
    \E out \in {format_search_response(
                    [i \in DOMAIN results |-> ResultDict(results[i], terms)],
                    TextOf(query))} :
    \E err \in {IF terms = NULL THEN "OperationalError" ELSE out.err} :
        /\ last_insert_rowid' = 0
        /\ ret' = [op |-> "unified_search",
                   arg |-> [query |-> query, filters |-> filters],
                   results |-> results,
                   val |-> IF err = "none" THEN out.val ELSE NULL,
                   err |-> err]
        /\ UNCHANGED <<repositories, documents, documents_fts, now,
                       analytics, txn>>

\* ---------------------------------------------------------- specifications
\* the two plain repositories of the document specification
DocRepoInputs ==
    { [owner |-> "a", name |-> "x", full_name |-> "a/x", stars |-> 5],
      [owner |-> "b", name |-> "y", full_name |-> "b/y", stars |-> 9] }

\* a repository insert stays within the bound
RepoRoom(d) ==
    (RepoByKey(d.owner, d.name) = {} /\ RepoByFullName(d.full_name) = {})
        => NextRowid(repositories) <= MaxRepoId

\* a document insert and its index insert stay within the bound
DocRoom(repo_id, path) ==
    DocByKey(repo_id, path) = {}
        => /\ NextRowid(documents) <= MaxDocId
           /\ NextRowid(documents_fts) <= MaxDocId

Next ==
    \/ \E d \in DocRepoInputs : RepoRoom(d) /\ upsert_repository(d)
    \/ \E repo_id \in 1..MaxRepoId, c \in Contents, t \in 0..MaxTime :
            /\ DocRoom(repo_id, "README.md")
            /\ add_document(repo_id, "README.md", c[1], c[2], t)
    \/ \E id \in 1..MaxDocId : delete_document(id)
    \/ \E id \in 1..MaxRepoId : delete_repository(id)
    \/ rebuild_fts_index
    \/ initialize

Spec == Init /\ [][Next]_vars

\* one repository, documents under every path for repository ids 1 and 2
NextDoc ==
    \/ \E d \in {[owner |-> "a", name |-> "x", full_name |-> "a/x"]} :
            RepoRoom(d) /\ upsert_repository(d)
    \/ \E repo_id \in {1, 2}, path \in Paths, c \in Contents,
          t \in 0..MaxTime :
            /\ DocRoom(repo_id, path)
            /\ add_document(repo_id, path, c[1], c[2], t)
    \/ \E id \in 1..MaxDocId : delete_document(id)

SpecDoc == Init /\ [][NextDoc]_vars

\* repository metadata in all its variants, one document
NextRepo ==
    \/ \E d \in RepoInputs : RepoRoom(d) /\ upsert_repository(d)
    \/ \E repo_id \in 1..MaxRepoId :
            /\ DocRoom(repo_id, "README.md")
            /\ add_document(repo_id, "README.md", "hello world", "h1", 0)
    \/ \E id \in 1..MaxRepoId : delete_repository(id)
    \/ initialize

SpecRepo == Init /\ [][NextRepo]_vars

\* the search specification: repositories are indexed one after the other,
\* each with a README.md, and searched in between
MaxSearchRepos == 8

Owners == <<"o1", "o2", "o3", "o4", "o5", "o6", "o7", "o8", "o9">>

FullNames ==
    <<"o1/n", "o2/n", "o3/n", "o4/n", "o5/n", "o6/n", "o7/n", "o8/n", "o9/n">>

\* repo_data of the i-th repository
SearchRepoData(i) ==
    [owner |-> Owners[i], name |-> "n", full_name |-> FullNames[i],
     stars |-> <<5, 9, 5, 0>>[((i - 1) % 4) + 1],
     quality_score |-> <<70, 50, 90, 50>>[(((i - 1) \div 2) % 4) + 1],
     source |-> IF i % 2 = 0 THEN "curated" ELSE "discovered",
     category |-> IF i <= 4 THEN "AI/ML" ELSE NULL,
     description |-> "d1"]

\* README.md of the i-th repository
SearchContent(i) ==
    IF i % 3 = 1 THEN <<"hello hello there", "h3">>
                 ELSE <<"hello world", "h1">>

SearchQueries == {"hello", "there", "hello world", "n", "o1", "nomatch", ""}

\* filters None (the empty dict) and the filters of unified_search
SearchFilters ==
    { <<>>, [min_stars |-> 0], [min_stars |-> 5], [category |-> "AI/ML"],
      [source |-> "curated"], [min_stars |-> 9, source |-> "discovered"] }

NextSearch ==
    \/ \E i \in 1..MaxSearchRepos :
            /\ i = NextRowid(repositories)
            /\ upsert_repository(SearchRepoData(i))
    \/ \E i \in DOMAIN repositories :
            /\ i = NextRowid(documents)
            /\ add_document(i, "README.md", SearchContent(i)[1],
                            SearchContent(i)[2], now)
    \/ \E query \in SearchQueries, filters \in SearchFilters :
            search_documents(query, filters)

SpecSearch == Init /\ [][NextSearch]_vars

\* the import specification: curated repositories are imported from a
\* configuration of up to MaxCurated entries, and repositories are upserted
MaxCurated == 2

\* entries of config['curated_repositories'], each with the answer of GitHub
\* to get_repository_info ({} for none)
CuratedEntries ==
    { [config |-> [repo |-> "a/x", category |-> "AI/ML",
                   description |-> "d1", quality_score |-> 90,
                   doc_paths |-> <<"README.md">>],
       info |-> [stargazers_count |-> 5, language |-> "Python"]],
      [config |-> [repo |-> "b/y"], info |-> <<>>],
      [config |-> [repo |-> "a/b/c"], info |-> <<>>],
      [config |-> [repo |-> "a/x", priority |-> "high"],
       info |-> [stargazers_count |-> 9]] }

RECURSIVE CuratedLists(_)
CuratedLists(n) ==
    IF n = 0 THEN { <<>> }
    ELSE LET shorter == CuratedLists(n - 1)
         IN  shorter \cup {Append(l, e) : l \in shorter, e \in CuratedEntries}

NextImport ==
    \/ \E curated \in CuratedLists(MaxCurated) :
            /\ import_curated_repositories(curated)
            /\ NextRowid(repositories') <= MaxRepoId + 1
    \/ \E d \in RepoInputs : RepoRoom(d) /\ upsert_repository(d)

SpecImport == Init /\ [][NextImport]_vars

\* the analytics specification: searches are logged one after the other
MaxLog == 4

LogQueries == { <<"React", "hooks">>, <<"how", "to", "train">> }

\* search_time in seconds: 0.2 and 0.7
LogTimes == { Dec(2, 10), Dec(7, 10) }

NextLog ==
    \E query \in LogQueries, results_count \in {0, 3},
       search_time \in LogTimes, t \in 0..MaxTime :
        /\ Len(search_queries) < MaxLog
        /\ log_search(query, results_count, search_time, <<>>, t)

SpecLog == Init /\ [][NextLog]_vars

\* inputs of the formatters
\* searches with and without results: a query with a topic word, one whose
\* words are all too short or stop words, the empty query, and one whose
\* topic word comes after stop words
MissingQueries ==
    { <<"React", "hooks">>, <<"To", "go">>, <<>>, <<"How", "to", "train">> }

NextMissing ==
    \E query \in MissingQueries, results_count \in {0, 3} :
        /\ Len(search_queries) < MaxLog
        /\ log_search(query, results_count, Dec(2, 10), <<>>, now)

SpecMissing == Init /\ [][NextMissing]_vars

\* batches of repositories: the configuration, what GitHub finds, the files
\* it lists for a repository and whether it serves them
BatchCurated ==
    { <<>>,
      << [config |-> [repo |-> "a/x", quality_score |-> 90,
                      doc_paths |-> <<"README.md">>],
          info |-> [stargazers_count |-> 5]] >>,
      << [config |-> [repo |-> "a/x", quality_score |-> 90,
                      doc_paths |-> <<"README.md">>],
          info |-> [stargazers_count |-> 5]],
         [config |-> [repo |-> "b/y"], info |-> <<>>] >> }

Found(owner, name, full_name, stars) ==
    [owner |-> owner, name |-> name, full_name |-> full_name, stars |-> stars,
     language |-> NULL, description |-> "", default_branch |-> "main"]

BatchFound ==
    { <<>>, <<Found("b", "y", "b/y", 9)>>,
      <<Found("c", "z", "c/z", 9), Found("b", "y", "b/y", 7)>> }

BatchNames == {"a/x", "b/y", "c/z"}

GitHubAnswers ==
    { [files |-> files, fetched |-> fetched] :
        files \in {[n \in BatchNames |-> <<"README.md">>],
                   [n \in BatchNames |->
                        IF n = "b/y" THEN <<>> ELSE <<"README.md">>]},
        fetched \in {[p \in Paths |-> <<"hello world", "h1">>],
                     [p \in Paths |-> <<>>]} }

\* the calls come at one time, or CACHE_HOURS after the first ones
BatchTimes == {0, (CACHE_HOURS * TicksPerDay) \div 24}

\* the batch stays within the bounds of the tables
BatchRoom ==
    /\ NextRowid(repositories') <= MaxRepoId + 1
    /\ NextRowid(documents') <= MaxDocId + 1
    /\ NextRowid(documents_fts') <= MaxDocId + 1

NextBatch ==
    \/ \E curated \in BatchCurated, github \in GitHubAnswers :
            /\ index_repositories("curated", 2, curated, <<>>, github, now)
            /\ BatchRoom
    \/ \E found \in BatchFound, github \in GitHubAnswers :
            /\ index_repositories("discover", 2, <<>>, found, github, now)
            /\ BatchRoom
    \/ \E curated \in BatchCurated, found \in BatchFound,
          github \in GitHubAnswers :
            /\ Len(curated) + Len(found) = 2
            /\ index_repositories("smart", 2, curated, found, github, now)
            /\ BatchRoom
    \/ \E github \in GitHubAnswers, t \in BatchTimes :
            /\ index_repositories("update", 2, <<>>, <<>>, github, t)
            /\ BatchRoom

SpecBatch == Init /\ [][NextBatch]_vars

\* searches by category: a capital letter, a keyword inside a longer word,
\* two keywords of one category, keywords of two categories, and no keyword
CategoryQueries ==
    { <<"React", "hooks">>, <<"how", "to", "train">>, <<"unit", "test">>,
      <<"React", "test">>, <<"hooks">> }

NextCategories ==
    \E query \in CategoryQueries, results_count \in {0, 3} :
        /\ Len(search_queries) < MaxLog
        /\ log_search(query, results_count, Dec(2, 10), <<>>, now)

SpecCategories == Init /\ [][NextCategories]_vars

\* searches logged over some days, and the popular searches read in between
MaxTick == 4

PopularQueries == { <<"React", "hooks">>, <<"unit", "test">> }

NextPopular ==
    \/ \E query \in PopularQueries, t \in now..MaxTick :
            /\ Len(search_queries) < MaxLog
            /\ log_search(query, 3, Dec(2, 10), <<>>, t)
    \/ \E limit \in 1..2, days \in 1..2, t \in now..MaxTick :
            get_popular_searches(limit, days, t)

SpecPopular == Init /\ [][NextPopular]_vars

\* repositories of both sources, and indexing with every answer of GitHub
DiscoveredLists == {<<>>, <<"README.md">>, <<"README.md", "docs/guide.md">>}

FetchAnswers == [Paths -> Contents \cup {<<>>}]

\* a curated repository with its paths and a score, and a discovered one
IndexRepoInputs ==
    {d \in RepoInputs : "source" \in DOMAIN d /\ d.stars = 5}

NextIndex ==
    \/ \E d \in IndexRepoInputs : RepoRoom(d) /\ upsert_repository(d)
    \/ \E repo_id \in 1..MaxRepoId, discovered \in DiscoveredLists,
          fetched \in FetchAnswers, t \in 0..MaxTime :
            /\ index_repository(repo_id, discovered, fetched, t)
            /\ NextRowid(documents') <= MaxDocId + 1
            /\ NextRowid(documents_fts') <= MaxDocId + 1

SpecIndex == Init /\ [][NextIndex]_vars

\* ------------------------------------------------------ scoring, as called
MaxScoreDocs == 3   \* document lists of every length up to this are scored
LongDocs == 6       \* length of the one list with more than five documents
ManyDocs == 21      \* length of the one list with more than twenty
ScoreToday == 400   \* day number of datetime.now()
MaxMilli == 1000    \* get_grade is called on k/1000 for k up to this

\* '## Table of Contents', then two fenced code blocks on their own lines
ContentsAndTwoBlocks ==
    <<"#", "#", " ", "Table of Contents", "NL">>
    \o Fence \o <<"w">> \o Fence \o <<"NL">> \o Fence \o <<"w">> \o Fence

\* 'example demo', then two inline code spans
DemoText ==
    <<"example", " ", "demo", " ", "tick", "w", "tick", " ",
      "tick", "w", "tick">>

\* eleven headers, then a tutorial with nine fenced code blocks
TutorialText ==
    [i \in 1..44 |-> <<"#", " ", "w", "NL">>[((i - 1) % 4) + 1]]
    \o <<"Tutorial", " ", "quickstart", " ", "playground", " ", "sample",
         " ", "getting started", " ", "index", "NL">>
    \o [i \in 1..63 |->
           <<"tick", "tick", "tick", "w", "tick", "tick", "tick">>[
               ((i - 1) % 7) + 1]]

ScoreDocSeq ==
    << [path |-> "README.md", content |-> ContentsAndTwoBlocks],
       [path |-> "CONTRIBUTING.md", content |-> ContentsAndTwoBlocks],
       [path |-> "CHANGELOG.md", content |-> DemoText],
       [path |-> "docs/guide.md", content |-> <<"w">>],
       [path |-> "a.md", content |-> ContentsAndTwoBlocks],
       [path |-> "docs/api/install.md", content |-> TutorialText] >>

ScoreDocSet == {ScoreDocSeq[i] : i \in DOMAIN ScoreDocSeq}

\* a list that has every kind of file, one of them without content and one
\* longer than the scorer reads
EveryKind ==
    << ScoreDocSeq[1], ScoreDocSeq[6], ScoreDocSeq[2],
       [path |-> "examples/tutorial.md", content |-> DemoText \o <<"LONG">>],
       ScoreDocSeq[3], ScoreDocSeq[4],
       [path |-> "src/setup/HISTORY.txt"],
       [path |-> "w/x/y/z.md",
        content |-> <<"LONG", "LONG", "LONG", "demo">>] >>

\* the six documents and then short ones, n in all
PaddedDocs(n) ==
    [i \in 1..n |-> IF i <= Len(ScoreDocSeq) THEN ScoreDocSeq[i]
                    ELSE [path |-> "x.md", content |-> <<"w">>]]

ScoreDocLists ==
    UNION {[1..k -> ScoreDocSet] : k \in 0..MaxScoreDocs}
    \cup {PaddedDocs(LongDocs), PaddedDocs(ManyDocs), EveryKind}

ScoreRepoData ==
    { [stargazers_count |-> 500, description |-> "d"],
      [stargazers_count |-> 20000, topics |-> <<"ml">>, description |-> "d",
       license |-> "MIT", pushed_at |-> <<"date", ScoreToday - 10>>],
      [stargazers_count |-> 50, topics |-> <<>>, description |-> NULL,
       license |-> NULL, pushed_at |-> <<"date", ScoreToday - 100>>],
      [stargazers_count |-> 1001, description |-> "",
       pushed_at |-> <<"text">>],
      [stargazers_count |-> 5, license |-> "MIT", pushed_at |-> <<"date", 0>>],
      [pushed_at |-> <<>>] }

\* the thresholds of the grades and of the suggestions, the floats right
\* below them, and every thousandth
GradeScores ==
    {Dec(k, 1000) : k \in 0..MaxMilli}
    \cup {FPrev(grade_bands[i].least) : i \in DOMAIN grade_bands}

\* each metric is missing, right below its threshold, or at its threshold
MetricChoices(k) ==
    LET rule == suggestion_rules[k]
    IN  {<<>>, <<rule.metric, FPrev(rule.below)>>, <<rule.metric, rule.below>>}

\* the dict of the chosen metrics
MetricsOf(choice) ==
    [m \in {choice[k][1] : k \in {j \in DOMAIN choice : choice[j] # <<>>}}
        |-> LET k == CHOOSE j \in DOMAIN choice :
                        choice[j] # <<>> /\ choice[j][1] = m
            IN  choice[k][2]]

SuggestionInputs ==
    {[metrics |-> MetricsOf(choice)] :
        choice \in MetricChoices(1) \X MetricChoices(2) \X MetricChoices(3)
                   \X MetricChoices(4) \X MetricChoices(5)
                   \X MetricChoices(6)}
    \cup {[total_score |-> FZero]}

ScoreCall(fn, arg) == [op |-> "call", fn |-> fn, arg |-> arg]

\* one of the scorer's functions is about to be called on an input
InitScore ==
    /\ repositories = <<>>
    /\ documents = <<>>
    /\ documents_fts = <<>>
    /\ last_insert_rowid = 0
    /\ now = 0
    /\ search_queries = <<>>
    /\ popular_searches = <<>>
    /\ search_categories = <<>>
    /\ missing_docs = <<>>
    /\ txn = NoTxn
    /\ ret \in
        {ScoreCall("score_repository",
                   [repo_data |-> repo_data, documents |-> docs,
                    today |-> ScoreToday]) :
            repo_data \in ScoreRepoData, docs \in ScoreDocLists}
        \cup {ScoreCall("get_grade", score) : score \in GradeScores}
        \cup {ScoreCall("generate_improvement_suggestions", scores) :
                scores \in SuggestionInputs}

ScoreRepository ==
    /\ ret.op = "call" /\ ret.fn = "score_repository"
    /\ ret' = [op |-> ret.fn, arg |-> ret.arg,
               val |-> score_repository(ret.arg.repo_data, ret.arg.documents,
                                        ret.arg.today)]
    /\ UNCHANGED <<repositories, documents, documents_fts, last_insert_rowid,
                   now, analytics, txn>>

GetGrade ==
    /\ ret.op = "call" /\ ret.fn = "get_grade"
    /\ ret' = [op |-> ret.fn, arg |-> ret.arg, val |-> get_grade(ret.arg)]
    /\ UNCHANGED <<repositories, documents, documents_fts, last_insert_rowid,
                   now, analytics, txn>>

\* suggestions for a given scores dict, or for what score_repository returned
Suggest ==
    /\ \/ ret.op = "call" /\ ret.fn = "generate_improvement_suggestions"
          /\ ret' = [op |-> ret.fn, arg |-> ret.arg,
                     val |-> generate_improvement_suggestions(ret.arg)]
       \/ ret.op = "score_repository"
          /\ ret' = [op |-> "generate_improvement_suggestions",
                     arg |-> ret.val,
                     val |-> generate_improvement_suggestions(ret.val)]
    /\ UNCHANGED <<repositories, documents, documents_fts, last_insert_rowid,
                   now, analytics, txn>>

NextScore == ScoreRepository \/ GetGrade \/ Suggest

SpecScore == InitScore /\ [][NextScore]_vars

MaxItems == 2       \* result lists of every length up to this are tried
LongList == 55      \* length of the one long result list
HugeLen == 300000   \* length of a very long field value

SeqsUpTo(S, n) == UNION {[1..k -> S] : k \in 0..n}

Repeat(x, n) == [i \in 1..n |-> x]

SearchRow(full_name, path, snippet, description) ==
    [full_name |-> full_name, stars |-> 12345, category |-> NullText,
     description |-> description, source |-> Txt(10, 1),
     quality_score |-> 50, path |-> path, snippet |-> snippet, rank |-> 0]

SearchRows ==
    { SearchRow(Txt(9, 1), Txt(9, 1), Txt(50, 1), Txt(20, 1)),
      SearchRow(Txt(9, 1), Txt(9, 1), Txt(250, 1), Txt(150, 1)),
      SearchRow(Txt(9, 1), Txt(HugeLen, 1), Txt(50, 1), Txt(20, 1)),
      SearchRow(Txt(9, 3), Txt(9, 1), Txt(150, 3), Txt(20, 1)) }

\* two results that do not fit together, then one that would fit
HugeHugeSmall ==
    << SearchRow(Txt(9, 1), Txt(HugeLen, 1), Txt(50, 1), Txt(20, 1)),
       SearchRow(Txt(9, 1), Txt(HugeLen, 1), Txt(50, 1), Txt(20, 1)),
       SearchRow(Txt(9, 1), Txt(9, 1), Txt(50, 1), Txt(20, 1)) >>

SearchInputs ==
    SeqsUpTo(SearchRows, MaxItems)
        \cup {Repeat(SearchRow(Txt(9, 1), Txt(9, 1), Txt(50, 1), Txt(20, 1)),
                     LongList)}
        \cup {HugeHugeSmall}

Queries == {Txt(5, 1), Txt(HugeLen, 1), Txt(2 * HugeLen, 1)}

DocRows ==
    { [path |-> Txt(9, 1), content |-> Txt(100, 1)],
      [path |-> Txt(9, 1), content |-> Txt(1500, 1)],
      [path |-> Txt(HugeLen, 1), content |-> Txt(100, 1)],
      [path |-> Txt(9, 3), content |-> Txt(1500, 3)] }

DocInputs == SeqsUpTo(DocRows, MaxItems)

RepoNames == {Txt(9, 1), Txt(2 * HugeLen, 1)}

ListItem(name, stars, category, description) ==
    [name |-> name, stars |-> stars, category |-> category,
     description |-> description]

ListItems ==
    { ListItem(Txt(9, 1), 12345, Txt(5, 1), Txt(20, 1)),
      ListItem(Txt(9, 1), 0, NullText, NullText),
      ListItem(Txt(9, 1), 12345, Txt(5, 1), Txt(100, 1)),
      ListItem(Txt(2 * HugeLen, 1), 12345, Txt(5, 1), Txt(20, 1)) }

ListInputs ==
    SeqsUpTo(ListItems, MaxItems)
        \cup {Repeat(ListItem(Txt(9, 1), 12345, Txt(5, 1), Txt(20, 1)),
                     LongList)}

Titles == {Lit(1, 4, 21), Lit(1, 4, 21) \o Txt(2 * HugeLen, 1)}

Call(fn, items, title) ==
    [op |-> "call", fn |-> fn, arg |-> [items |-> items, title |-> title]]

\* a formatter is about to be called on an input
InitFmt ==
    /\ repositories = <<>>
    /\ documents = <<>>
    /\ documents_fts = <<>>
    /\ last_insert_rowid = 0
    /\ now = 0
    /\ search_queries = <<>>
    /\ popular_searches = <<>>
    /\ search_categories = <<>>
    /\ missing_docs = <<>>
    /\ txn = NoTxn
    /\ ret \in
        {Call("format_search_response", results, query) :
            results \in SearchInputs, query \in Queries}
        \cup {Call("format_docs_response", docs, repo_name) :
            docs \in DocInputs, repo_name \in RepoNames}
        \cup {Call("format_list_response", items, title) :
            items \in ListInputs, title \in Titles}

\* the formatter runs and its outcome is recorded
FormatSearch ==
    /\ ret.op = "call" /\ ret.fn = "format_search_response"
    /\ ret' = [op |-> ret.fn, arg |-> ret.arg]
              @@ format_search_response(ret.arg.items, ret.arg.title)
    /\ UNCHANGED <<repositories, documents, documents_fts, last_insert_rowid,
                   now, analytics, txn>>

FormatDocs ==
    /\ ret.op = "call" /\ ret.fn = "format_docs_response"
    /\ ret' = [op |-> ret.fn, arg |-> ret.arg]
              @@ format_docs_response(ret.arg.items, ret.arg.title)
    /\ UNCHANGED <<repositories, documents, documents_fts, last_insert_rowid,
                   now, analytics, txn>>

FormatList ==
    /\ ret.op = "call" /\ ret.fn = "format_list_response"
    /\ ret' = [op |-> ret.fn, arg |-> ret.arg]
              @@ format_list_response(ret.arg.items, ret.arg.title)
    /\ UNCHANGED <<repositories, documents, documents_fts, last_insert_rowid,
                   now, analytics, txn>>

NextFmt == FormatSearch \/ FormatDocs \/ FormatList

SpecFmt == InitFmt /\ [][NextFmt]_vars

\* the connections specification: one connection writes documents and
\* rebuilds the index statement by statement, while searches, listings and
\* statistics are read on other connections
NextConnections ==
    \/ \E d \in {[owner |-> "a", name |-> "x", full_name |-> "a/x"]} :
            txn.pc = "idle" /\ RepoRoom(d) /\ upsert_repository(d)
    \/ \E repo_id \in 1..MaxRepoId, c \in Contents :
            /\ DocRoom(repo_id, "README.md")
            /\ add_document_row(repo_id, "README.md", c[1], c[2], now)
    \/ add_document_trigger
    \/ rebuild_clear
    \/ rebuild_repopulate
    \/ commit
    \/ \E query \in {"hello", "there"} : search_documents(query, <<>>)
    \/ \E source \in {"", "curated"} : list_repositories(source)
    \/ get_statistics

SpecConnections == Init /\ [][NextConnections]_vars

\* the serving specification: two repositories, one of them without a
\* description, get a README.md each and unified_search is called in between
ServeRepos ==
    { [owner |-> "a", name |-> "x", full_name |-> "a/x", stars |-> 5,
       description |-> "d1"],
      [owner |-> "b", name |-> "y", full_name |-> "b/y", stars |-> 9] }

ServeQueries == {"hello", "there", "nomatch", ""}

NextServe ==
    \/ \E d \in ServeRepos : RepoRoom(d) /\ upsert_repository(d)
    \/ \E repo_id \in DOMAIN repositories, c \in Contents :
            /\ DocRoom(repo_id, "README.md")
            /\ add_document(repo_id, "README.md", c[1], c[2], now)
    \/ \E query \in ServeQueries, filters \in {<<>>, [min_stars |-> 9]} :
            unified_search(query, filters)

SpecServe == Init /\ [][NextServe]_vars

\* ------------------------------------------------------------- properties
\* the index row a live document should have
IndexRowOf(i) ==
    [repo_full_name |-> FullNameOf(documents[i].repo_id),
     path |-> documents[i].path, content |-> documents[i].content]

\* the index rows are, as a multiset, the index rows of the live documents
IndexMatchesDocuments ==
    /\ Cardinality(DOMAIN documents_fts) = Cardinality(DOMAIN documents)
    /\ \A i \in DOMAIN documents :
            Cardinality({r \in DOMAIN documents_fts :
                            documents_fts[r] = IndexRowOf(i)})
            = Cardinality({j \in DOMAIN documents :
                            IndexRowOf(j) = IndexRowOf(i)})

\* C1: after any sequence of addDocument and document-delete operations the
\* full-text index holds exactly one entry per live document, with that
\* document's repository full name, path and current content, and no entry
\* for a document that does not exist.
C1_IndexIsLiveDocuments ==
    ret.op \in {"add_document", "delete_document"} => IndexMatchesDocuments

\* C2: addDocument with a repoId that matches no repository fails with
\* NotFoundError and leaves the document table and the index unchanged.
C2_AddToMissingRepoFails ==
    [][(ret'.op = "add_document"
            /\ ret'.arg.repo_id \notin DOMAIN repositories)
        => (ret'.err = "NotFoundError"
            /\ UNCHANGED <<documents, documents_fts>>)]_vars

\* C3: upsertRepository on an (owner, name) that already has a row leaves
\* exactly one row for it; star count, language, quality score and the
\* doc-path and topic lists hold the call's values, category and description
\* hold the call's value when it is non-null and the earlier value otherwise.
C3_UpsertTwiceOneRow ==
    [][(ret'.op = "upsert_repository"
            /\ RepoByKey(ret'.arg.owner, ret'.arg.name) # {})
        => LET d == ret'.arg
               old == RepoByKey(d.owner, d.name)
               new == RepoByKeyIn(repositories', d.owner, d.name)
           IN  /\ ret'.err = "none"
               /\ new = old
               /\ Cardinality(new) = 1
               /\ DOMAIN repositories' = DOMAIN repositories
               /\ \A i \in new :
                    /\ repositories'[i].stars = Get(d, "stars", 0)
                    /\ repositories'[i].language = Get(d, "language", NULL)
                    /\ repositories'[i].quality_score
                            = Get(d, "quality_score", 50)
                    /\ json_loads(repositories'[i].doc_paths)
                            = Get(d, "doc_paths", <<>>)
                    /\ json_loads(repositories'[i].topics)
                            = Get(d, "topics", <<>>)
                    /\ repositories'[i].category
                            = IF Get(d, "category", NULL) # NULL
                              THEN d.category
                              ELSE repositories[i].category
                    /\ repositories'[i].description
                            = IF Get(d, "description", NULL) # NULL
                              THEN d.description
                              ELSE repositories[i].description]_vars

\* a second upsert without category and description has kept the first
\* call's category and description and taken the second call's stars
C3_Witness ==
    /\ ret.op = "upsert_repository"
    /\ Get(ret.arg, "category", NULL) = NULL
    /\ Get(ret.arg, "description", NULL) = NULL
    /\ \E i \in RepoByKey(ret.arg.owner, ret.arg.name) :
        /\ repositories[i].category = "AI/ML"
        /\ repositories[i].description = "d1"
        /\ repositories[i].stars = 9
        /\ repositories[i].language = NULL
        /\ Cardinality(RepoByKey(ret.arg.owner, ret.arg.name)) = 1

\* C4: upsertRepository returns the id of the repository row identified by
\* (owner, name), both when it inserts the row and when it updates it.
C4_UpsertReturnsRowId ==
    (ret.op = "upsert_repository" /\ ret.err = "none")
        => ret.val \in RepoByKey(ret.arg.owner, ret.arg.name)

\* C5: from any store state rebuildFullTextIndex leaves the index with
\* exactly one entry per live document and returns the live document count,
\* and a second call right after the first changes nothing.
C5_RebuildMatchesDocuments ==
    [][(ret'.op = "rebuild_fts_index")
        => (/\ IndexMatchesDocuments'
            /\ ret'.val = Cardinality(DOMAIN documents')
            /\ ret.op = "rebuild_fts_index"
                    => UNCHANGED <<documents_fts, ret>>)]_vars

DocKeysUnique ==
    \A i, j \in DOMAIN documents :
        (documents[i].repo_id = documents[j].repo_id
            /\ documents[i].path = documents[j].path) => i = j

\* C6: addDocument for a (repository, path) that already has a document
\* replaces that row's content and hash and sets its indexed-at timestamp to
\* the current time; there is always exactly one row per (repository, path)
\* that was added, and no other row changes.
C6_ReindexReplacesInPlace ==
    [][/\ DocKeysUnique'
       /\ ret'.op = "add_document" =>
            LET a == ret'.arg
                old == DocByKey(a.repo_id, a.path)
                new == DocByKeyIn(documents', a.repo_id, a.path)
            IN  /\ Cardinality(new) = 1
                /\ old # {} => new = old /\ DOMAIN documents' = DOMAIN documents
                /\ \A d \in new :
                    /\ documents'[d].content = a.content
                    /\ documents'[d].content_hash = a.content_hash
                    /\ documents'[d].indexed_at = now'
                    /\ d \in DOMAIN documents
                            => documents'[d].indexed_at
                                    >= documents[d].indexed_at
                /\ \A i \in DOMAIN documents \ new :
                    i \in DOMAIN documents' /\ documents'[i] = documents[i]]_vars

\* a document inserted before another one has just been re-indexed with a
\* different content at a later time
C6_Witness ==
    /\ ret.op = "add_document"
    /\ \E d \in DocByKey(ret.arg.repo_id, ret.arg.path) :
        /\ \E e \in DOMAIN documents :
                e > d /\ documents[e].indexed_at < documents[d].indexed_at
        /\ documents[d].content = "hello there"
        /\ documents[d].content_hash = "h2"
        /\ d \in DOMAIN documents_fts
        /\ documents_fts[d].content = "hello there"

\* C7: deleting a repository removes its documents and their index entries,
\* so no document row and no index entry refers to a repository that does
\* not exist.
C7_DeleteRepositoryCascades ==
    [][(ret'.op = "delete_repository")
        => (/\ \A i \in DOMAIN documents' :
                    documents'[i].repo_id # ret'.arg
            /\ \A r \in DOMAIN documents_fts' :
                    documents_fts'[r].repo_full_name
                        # repositories[ret'.arg].full_name)]_vars

Formatters ==
    {"format_search_response", "format_docs_response", "format_list_response"}

\* C8: for every input the text returned by format_search_response,
\* format_docs_response and format_list_response has a byte size of at most
\* the 500 KB hard ceiling.
C8_PayloadWithinCeiling ==
    (ret.op \in Formatters /\ ret.err = "none")
        => TBytes(ret.val) <= MAX_RESPONSE_SIZE

\* number of characters the lines of one item have
ItemChars(lines) == TLen(JoinLines(lines)) - (Len(lines) - 1)

\* the items of the input whose text is in the payload in full
Rendered ==
    {i \in DOMAIN ret.arg.items :
        TagChars(ret.val, "item", i) =
            CASE ret.op = "format_search_response" ->
                    IF i > MAX_SEARCH_RESULTS THEN -1
                    ELSE ItemChars(SearchItemLines(
                            TruncatedResult(ret.arg.items[i]), i))
              [] ret.op = "format_docs_response" ->
                    ItemChars(DocSection(ret.arg.items[i], i))
              [] ret.op = "format_list_response" ->
                    TLen(ListLine(ret.arg.items[i], i))}

\* number of items of the input that the payload leaves out
Omitted == Len(ret.arg.items) - Cardinality(Rendered)

\* the payload has an "N more" marker stating count
HasMoreMarker(count) ==
    \E k \in DOMAIN ret.val :
        /\ ret.val[k].kind = "more"
        /\ ret.val[k].a = count
        /\ TagChars(ret.val, "more", count) > Digits(count)

\* the payload has the whole line "Showing k of n results" with n - k = count
HasShowingLine(count) ==
    \E k \in DOMAIN ret.val :
        /\ ret.val[k].kind = "showing"
        /\ ret.val[k].b - ret.val[k].a = count
        /\ TagChars(ret.val, "showing", ret.val[k].a)
                = 8 + Digits(ret.val[k].a) + 4 + Digits(ret.val[k].b) + 9

\* the payload ends with "[Response truncated due to size limits]"
HasClampNote ==
    /\ ret.val # <<>>
    /\ ret.val[Len(ret.val)].kind = "clamp"
    /\ ret.val[Len(ret.val)].n = 41

\* C9: whenever a formatter (search, docs or list) leaves out items of the
\* result set it was given, the payload carries an explicit omission marker
\* whose stated count is non-zero and equals the number of items left out.
\* The search formatter's line "Showing k of n results" is read as a marker
\* stating n - k.
C9_OmissionCountStated ==
    (ret.op \in Formatters /\ ret.err = "none" /\ Omitted > 0)
        => (HasMoreMarker(Omitted) \/ HasShowingLine(Omitted))

\* C10: searchDocuments returns at most 50 rows for any query and store
\* contents, and the returned rows are ordered by full-text relevance rank,
\* then quality score descending, then star count descending.
C10_SearchLimitedAndOrdered ==
    (ret.op = "search_documents" /\ ret.err = "none")
        => /\ Len(ret.val) <= 50
           /\ \A i, j \in DOMAIN ret.val :
                i < j =>
                    \/ ret.val[i].rank < ret.val[j].rank
                    \/ /\ ret.val[i].rank = ret.val[j].rank
                       /\ ret.val[i].quality_score > ret.val[j].quality_score
                    \/ /\ ret.val[i].rank = ret.val[j].rank
                       /\ ret.val[i].quality_score = ret.val[j].quality_score
                       /\ ret.val[i].stars >= ret.val[j].stars

\* a search that more than 50 rows of the join match returned 50 of them,
\* with rows of different ranks, rows of one rank and different quality
\* scores, and rows of one rank and quality score and different stars
C10_Witness ==
    /\ ret.op = "search_documents"
    /\ ret.err = "none"
    /\ Len(SearchJoin(QueryTerms(ret.arg.query), ret.arg.filters)) > 50
    /\ Len(ret.val) = 50
    /\ \E i, j \in DOMAIN ret.val : ret.val[i].rank # ret.val[j].rank
    /\ \E i, j \in DOMAIN ret.val :
            /\ ret.val[i].rank = ret.val[j].rank
            /\ ret.val[i].quality_score # ret.val[j].quality_score
    /\ \E i, j \in DOMAIN ret.val :
            /\ ret.val[i].rank = ret.val[j].rank
            /\ ret.val[i].quality_score = ret.val[j].quality_score
            /\ ret.val[i].stars # ret.val[j].stars

\* the log records with a query text
LogOf(query) == SelectSeq(search_queries, LAMBDA r : r.query = query)

\* exact sum of a column of floats over records
RECURSIVE ExactSum(_, _, _)
ExactSum(records, value(_), k) ==
    IF k > Len(records) THEN FZero
    ELSE ExactAdd(value(records[k]), ExactSum(records, value, k + 1))

\* sum of a column of floats over records 1..k, added in floats in log order
RECURSIVE FloatSum(_, _, _)
FloatSum(records, value(_), k) ==
    IF k = 0 THEN FZero
    ELSE FAdd(FloatSum(records, value, k - 1), value(records[k]))

\* the double nearest to s / n, for an exact number s
ExactMean(s, n) ==
    LET d == BigDivSmall(BigShl(s.m, 80), n)
    IN  FRound(d.q, s.e - 80, d.r # 0)

\* avg is the mean of a column over the records, replayed either way: summed
\* exactly and rounded once, or summed and divided in floats
IsReplayedMean(avg, records, value(_)) ==
    \/ avg = ExactMean(ExactSum(records, value, 1), Len(records))
    \/ avg = FDivInt(FloatSum(records, value, Len(records)), Len(records))

\* C11: after any sequence of logSearch calls, for every query text the
\* popular-search aggregate's count equals the number of log records with
\* exactly that query, and its average result count and average latency
\* equal the means of those records' values computed by replaying the log.
C11_AggregateEqualsReplay ==
    /\ \A q \in {search_queries[i].query : i \in DOMAIN search_queries} :
            Cardinality(RowsWith(popular_searches, "query", q)) = 1
    /\ \A i \in DOMAIN popular_searches :
        LET p == popular_searches[i]
            log == LogOf(p.query)
            results(r) == FromInt(r.results_count)
            time(r) == r.search_time
        IN  /\ p.search_count = Len(log)
            /\ IsReplayedMean(p.avg_results_count, log, results)
            /\ IsReplayedMean(p.avg_search_time, log, time)

\* C12: in every reachable store state every repository row's quality score
\* lies in [0,1] (0..100 in hundredths), including rows written by the
\* curated-repository import and rows upserted without an explicit score.
C12_QualityScoreInUnitInterval ==
    \A i \in DOMAIN repositories :
        /\ repositories[i].quality_score >= 0
        /\ repositories[i].quality_score <= 100

\* C14: the grade score_repository returns is the grade of the band that
\* holds the total score it returns, the weighted sum rounded to two decimals
C14_GradeIsBandOfTotal ==
    ret.op = "score_repository"
        => ret.val.grade = get_grade(ret.val.total_score)

\* the scores at a branch of _get_grade, the floats right below them, 0 and 1
BandProbes ==
    {grade_bands[i].least : i \in DOMAIN grade_bands}
    \cup {FPrev(grade_bands[i].least) : i \in DOMAIN grade_bands}
    \cup {FZero, FOne}

\* the grades the mapping gives
GradesGiven == {get_grade(s) : s \in BandProbes}

\* the letter grades from the lowest to the highest
GradeOrder == <<"F", "D", "C-", "C", "C+", "B-", "B", "B+", "A-", "A", "A+">>

\* the place of a grade in that order
GradeRank(grade) == CHOOSE i \in DOMAIN GradeOrder : GradeOrder[i] = grade

\* C15 as stated: the grade mapping has nine bands
C15_NineBands ==
    ret.op = "get_grade" => Cardinality(GradesGiven \cup {ret.val}) = 9

\* C15, amended: the grade mapping has eleven bands, F, D, C-, C, C+, B-, B,
\* B+, A-, A and A+ from the lowest to the highest, and every grade returned
\* is one of them
C15_ElevenBands ==
    ret.op = "get_grade" =>
        /\ Cardinality(GradesGiven \cup {ret.val}) = 11
        /\ GradesGiven \cup {ret.val}
            = {GradeOrder[i] : i \in DOMAIN GradeOrder}
        /\ \A i \in DOMAIN grade_bands :
            get_grade(grade_bands[i].least)
                = GradeOrder[Len(GradeOrder) + 1 - i]

\* get_grade was called and returned one of the minus grades
C15_Witness ==
    /\ ret.op = "get_grade"
    /\ ret.val = "B-"
    /\ ret.arg = Dec(650, 1000)

\* the band of a grade: its least score and the least score of the band above
BandOf(grade) ==
    LET i == CHOOSE j \in 0..Len(grade_bands) :
                IF grade = "F" THEN j = 0
                ELSE j > 0 /\ grade_bands[Len(grade_bands) + 1 - j].grade = grade
        n == Len(grade_bands)
    IN  [has_least |-> i > 0,
         least |-> IF i > 0 THEN grade_bands[n + 1 - i].least ELSE FZero,
         has_next |-> i < n,
         next |-> IF i < n THEN grade_bands[n - i].least ELSE FOne]

\* C16: every score has one grade; the bands are contiguous, a score is in
\* the band whose lower boundary it has reached and whose upper boundary, the
\* lower boundary of the next band, it has not; a higher score never has a
\* lower grade; F is the grade exactly of the scores below 0.40 and A+ exactly
\* of the scores from 0.90
C16_GradeMappingTotalMonotone ==
    ret.op = "get_grade" =>
        /\ ret.val \in {GradeOrder[i] : i \in DOMAIN GradeOrder}
        /\ BandOf(ret.val).has_least => FLeq(BandOf(ret.val).least, ret.arg)
        /\ BandOf(ret.val).has_next => FLess(ret.arg, BandOf(ret.val).next)
        /\ \A s \in BandProbes :
            FLeq(s, ret.arg) => GradeRank(get_grade(s)) <= GradeRank(ret.val)
        /\ ret.val = "F" <=> FLess(ret.arg, Dec(40, 100))
        /\ ret.val = "A+" <=> FLeq(Dec(90, 100), ret.arg)

\* get_grade was called on a lower boundary and returned the band above it
C16_Witness ==
    /\ ret.op = "get_grade"
    /\ ret.arg = Dec(400, 1000)
    /\ ret.val = "D"

\* a metric score or a total is in [0,1]
InUnitInterval(x) == FLeq(FZero, x) /\ FLeq(x, FOne)

\* C17: the six weights sum to exactly 1.0, every metric score that
\* score_repository returns is in [0,1], and so is the total score
C17_WeightsAndScoresBounded ==
    ret.op = "score_repository" =>
        /\ DOMAIN ret.val.metrics = DOMAIN weights
        /\ WeightedSum([m \in DOMAIN ret.val.metrics |-> FOne],
                       Len(MetricOrder)) = FOne
        /\ \A m \in DOMAIN ret.val.metrics :
            InUnitInterval(ret.val.metrics[m])
        /\ InUnitInterval(ret.val.total_score)
        /\ InUnitInterval(WeightedSum(ret.val.metrics, Len(MetricOrder)))

\* score_repository returned a metric at its ceiling 1.0 and a total above 0.7
C17_Witness ==
    /\ ret.op = "score_repository"
    /\ ret.val.metrics.community = FOne
    /\ ret.val.metrics.freshness = FOne
    /\ FLess(Dec(7, 10), ret.val.total_score)

\* the content has the heading '## Table of Contents' and two code blocks
HasContentsAndTwoBlocks(doc) ==
    /\ "content" \in DOMAIN doc
    /\ \E i \in DOMAIN doc.content :
        MatchAt(doc.content, i, <<"#", "#", " ", "Table of Contents">>)
    /\ CodeBlocksFrom(doc.content, 1) = 2

\* C18: for three documents of which one has '## Table of Contents' and two
\* code blocks, score_repository gives completeness and structure credit
\* above zero and a grade of C- or higher
C18_ThreeDocumentsGradeAtLeastCMinus ==
    (/\ ret.op = "score_repository"
     /\ Len(ret.arg.documents) = 3
     /\ \E i \in DOMAIN ret.arg.documents :
            HasContentsAndTwoBlocks(ret.arg.documents[i]))
        => /\ FLess(FZero, ret.val.metrics.completeness)
           /\ FLess(FZero, ret.val.metrics.structure)
           /\ GradeRank(ret.val.grade) >= GradeRank("C-")

\* the thresholds of the suggestions
SuggestionThresholds ==
    [completeness |-> Dec(7, 10), freshness |-> Dec(5, 10),
     structure |-> Dec(6, 10), examples |-> Dec(5, 10),
     community |-> Dec(5, 10), accessibility |-> Dec(6, 10)]

\* the place of a suggestion text in a list, 0 when it is not there
PlaceIn(list, text) ==
    IF \E i \in DOMAIN list : list[i] = text
    THEN CHOOSE i \in DOMAIN list : list[i] = text
    ELSE 0

\* C19: the suggestion of a metric is listed if and only if the metric's
\* score, 0 for a metric that is missing, is below the metric's own threshold;
\* the suggestions listed are in the order completeness, freshness, structure,
\* examples, community, accessibility, each once
C19_SuggestionsByThreshold ==
    ret.op = "generate_improvement_suggestions" =>
        LET metrics == Get(ret.arg, "metrics", [m \in {} |-> FZero])
            text(k) == suggestion_rules[k].text
            listed(k) == PlaceIn(ret.val, text(k)) > 0
        IN  /\ \A k \in DOMAIN MetricOrder :
                /\ suggestion_rules[k].metric = MetricOrder[k]
                /\ listed(k) <=>
                    FLess(Get(metrics, MetricOrder[k], FZero),
                          SuggestionThresholds[MetricOrder[k]])
            /\ \A j, k \in DOMAIN MetricOrder :
                (j < k /\ listed(j) /\ listed(k))
                    => PlaceIn(ret.val, text(j)) < PlaceIn(ret.val, text(k))
            /\ Len(ret.val)
                = Cardinality({k \in DOMAIN MetricOrder : listed(k)})

\* suggestions were made for scores with a missing metric, a metric right
\* below its threshold and a metric at its threshold
C19_Witness ==
    /\ ret.op = "generate_improvement_suggestions"
    /\ "metrics" \in DOMAIN ret.arg
    /\ "freshness" \notin DOMAIN ret.arg.metrics
    /\ "completeness" \in DOMAIN ret.arg.metrics
    /\ ret.arg.metrics.completeness = FPrev(Dec(7, 10))
    /\ "structure" \in DOMAIN ret.arg.metrics
    /\ ret.arg.metrics.structure = Dec(6, 10)
    /\ Len(ret.val) >= 2
    /\ ret.val[1] = suggestion_rules[1].text
    /\ ret.val[2] = suggestion_rules[2].text
    /\ PlaceIn(ret.val, suggestion_rules[3].text) = 0

\* the atoms of a stored content: words with spaces between them
StoredContentAtoms(content) ==
    IF content \in {"hello world", "hello there"} THEN <<"w", " ", "w">>
    ELSE <<"w">>

\* the documents of a repository as the scorer takes them, in rowid order
RECURSIVE DocumentsOf(_, _)
DocumentsOf(repo_id, ids) ==
    IF ids = {} THEN <<>>
    ELSE LET i == CHOOSE j \in ids : \A k \in ids : j <= k
             rest == DocumentsOf(repo_id, ids \ {i})
         IN  IF documents[i].repo_id = repo_id
             THEN <<[path |-> documents[i].path,
                     content |-> StoredContentAtoms(documents[i].content)]>>
                  \o rest
             ELSE rest

\* the repository as get_repository returns it, for the scorer
ScoredRepoData(row) ==
    [description |-> row.description, topics |-> json_loads(row.topics)]

\* C13: after index_repository has added or replaced documents of a
\* repository, the quality score, the grade and the metrics stored on its row
\* are those of score_repository for the row and its current documents
C13_QualityRecomputedOnIndex ==
    (/\ ret.op = "index_repository"
     /\ ret.err = "none"
     /\ ret.val > 0)
        => LET row == repositories[ret.arg.repo_id]
               metrics == json_loads(row.quality_metrics)
               s == score_repository(
                        ScoredRepoData(row),
                        DocumentsOf(ret.arg.repo_id, DOMAIN documents),
                        ScoreToday)
           IN  /\ Dec(row.quality_score, 100) = s.total_score
               /\ row.quality_grade = s.grade
               /\ DOMAIN metrics = DOMAIN s.metrics
               /\ \A m \in DOMAIN s.metrics : metrics[m] = s.metrics[m]

\* the logged searches with that query and no result
ZeroResultLog(query) ==
    SelectSeq(search_queries,
              LAMBDA r : r.query = query /\ r.results_count = 0)

\* one record at most per (topic, query), with the count of the logged
\* zero-result searches of its query, and a record for every such query
MissingDocsCountLog ==
    /\ \A i, j \in DOMAIN missing_docs :
        (/\ missing_docs[i].topic = missing_docs[j].topic
         /\ missing_docs[i].query = missing_docs[j].query) => i = j
    /\ \A i \in DOMAIN missing_docs :
        missing_docs[i].request_count
            = Len(ZeroResultLog(missing_docs[i].query))
    /\ \A k \in DOMAIN search_queries :
        search_queries[k].results_count = 0
            => \E i \in DOMAIN missing_docs :
                missing_docs[i].query = search_queries[k].query

\* C20: after any sequence of log_search calls there is at most one
\* missing_docs record per (topic, query) and its request_count is the number
\* of logged searches with that query and no result; a log_search with a
\* result count above 0 leaves missing_docs as it was
C20_MissingDocsCountZeroResultSearches ==
    /\ []MissingDocsCountLog
    /\ [][(ret'.op = "log_search" /\ ret'.arg.results_count > 0)
            => missing_docs' = missing_docs]_vars

\* a query was searched twice without result and once with results, the last
\* search being one of the three
C20_Witness ==
    /\ ret.op = "log_search"
    /\ \E i \in DOMAIN missing_docs :
        /\ missing_docs[i].request_count = 2
        /\ missing_docs[i].query = ret.arg.query
        /\ missing_docs[i].topic = "To"
        /\ \E k \in DOMAIN search_queries :
            /\ search_queries[k].query = ret.arg.query
            /\ search_queries[k].results_count > 0

\* the names of the categories of category_keywords
CategoryNames ==
    {category_keywords[k].category : k \in DOMAIN category_keywords}

\* the count of a category aggregate, 0 when there is none
CategoryCount(table, category) ==
    LET hit == RowsWith(table, "category", category)
    IN  IF hit = {} THEN 0 ELSE table[CHOOSE i \in hit : TRUE].search_count

\* C21: each log_search call adds exactly one to the count of every category
\* that has a keyword inside the lower-cased query, once per category however
\* many of its keywords match, creating the aggregate at count 1 if absent,
\* and leaves every other category aggregate as it was; there is one aggregate
\* per category at most and no count ever decreases
C21_CategoryCountedOncePerSearch ==
    [][/\ \A k \in DOMAIN category_keywords :
            LET c == category_keywords[k]
                old == RowsWith(search_categories, "category", c.category)
                new == RowsWith(search_categories', "category", c.category)
            IN  /\ Cardinality(new) <= 1
                /\ CategoryCount(search_categories', c.category)
                        >= CategoryCount(search_categories, c.category)
                /\ (ret'.op = "log_search"
                        /\ CategoryMatches(c, ret'.arg.query))
                    => /\ Cardinality(new) = 1
                       /\ CategoryCount(search_categories', c.category)
                            = CategoryCount(search_categories, c.category) + 1
                /\ (ret'.op = "log_search"
                        /\ ~CategoryMatches(c, ret'.arg.query))
                    => /\ new = old
                       /\ \A i \in old :
                            search_categories'[i] = search_categories[i]
       /\ \A i \in DOMAIN search_categories' :
            search_categories'[i].category \in CategoryNames]_vars

\* a search whose words are keywords of two categories, one of them counted
\* before and one not, next to an aggregate the search does not touch
C21_Witness ==
    /\ ret.op = "log_search"
    /\ ret.arg.query = <<"React", "test">>
    /\ CategoryCount(search_categories, "Web Development") = 2
    /\ CategoryCount(search_categories, "Testing") = 1
    /\ CategoryCount(search_categories, "AI/ML") = 1

\* the aggregates whose last search is no more than days days before time t
WithinWindow(days, t) ==
    {i \in DOMAIN popular_searches :
        /\ popular_searches[i].last_searched >= t - days * TicksPerDay
        /\ popular_searches[i].last_searched <= t}

\* those of them whose last search is later than the start of the window
InsideWindow(days, t) ==
    {i \in WithinWindow(days, t) :
        popular_searches[i].last_searched > t - days * TicksPerDay}

\* C22: get_popular_searches(limit, days) returns at most limit aggregates in
\* descending count order, and they are the highest-count ones among exactly
\* the queries whose last search happened within the last days days: each
\* returned aggregate is within the window, and an aggregate inside the
\* window is left out only when limit aggregates of at least its count are
\* returned
C22_PopularWithinWindow ==
    ret.op = "get_popular_searches" =>
        LET got == ret.val
            GotQueries == {got[k].query : k \in DOMAIN got}
        IN  /\ Len(got) <= ret.arg.limit
            /\ \A k \in 1..(Len(got) - 1) : got[k].count >= got[k + 1].count
            /\ \A k, l \in DOMAIN got : got[k].query = got[l].query => k = l
            /\ \A k \in DOMAIN got :
                    \E i \in WithinWindow(ret.arg.days, now) :
                        /\ popular_searches[i].query = got[k].query
                        /\ popular_searches[i].search_count = got[k].count
            /\ \A i \in InsideWindow(ret.arg.days, now) :
                    popular_searches[i].query \notin GotQueries
                        => /\ Len(got) = ret.arg.limit
                           /\ \A k \in DOMAIN got :
                                got[k].count
                                    >= popular_searches[i].search_count

\* the items of the input of which the payload has some text
Shown == {i \in DOMAIN ret.arg.items : TagChars(ret.val, "item", i) > 0}

\* C23: the items the search formatter renders are a prefix of its input of
\* at most 20 items, and the items the list formatter renders are a prefix of
\* at most 50 items: no item is in the payload, in full or in part, while an
\* item before it is not there in full, and an item is there in part only as
\* the last one before the note of the final cut
C23_RenderedIsPrefix ==
    (ret.op \in {"format_search_response", "format_list_response"}
        /\ ret.err = "none")
        => /\ Shown = 1..Cardinality(Shown)
           /\ Rendered = 1..Cardinality(Rendered)
           /\ Rendered \subseteq Shown
           /\ Cardinality(Shown) <= Cardinality(Rendered) + 1
           /\ Shown # Rendered => HasClampNote
           /\ Cardinality(Shown)
                <= (IF ret.op = "format_search_response"
                    THEN MAX_SEARCH_RESULTS ELSE 50)

\* the search formatter was given two results that do not fit together and a
\* third that would fit, and rendered the first one only
C23_Witness ==
    /\ ret.op = "format_search_response"
    /\ ret.err = "none"
    /\ ret.arg.items = HugeHugeSmall
    /\ Rendered = {1}
    /\ Shown = {1}

\* the full names of the rows of a table of repositories
NamesOf(repos) == {repos[i].full_name : i \in DOMAIN repos}

\* the full names the configuration imports
ConfiguredNames(curated) ==
    {curated[k].config.repo : k \in DOMAIN curated}

\* the full names index_repositories has to attempt, from its arguments, the
\* table before the call, the table after it and the time of the call
Attempted(arg, before, after, t) ==
    LET curated_names ==
            IF arg.mode \in {"smart", "curated"}
            THEN {after[i].full_name :
                    i \in {j \in DOMAIN after : after[j].source = "curated"}}
            ELSE {}
        known == NamesOf(before)
                    \cup (IF arg.mode = "smart"
                          THEN ConfiguredNames(arg.curated) ELSE {})
        found_names ==
            IF arg.mode \in {"smart", "discover"}
            THEN {arg.found[k].full_name : k \in DOMAIN arg.found} \ known
            ELSE {}
        due_names ==
            IF arg.mode = "update"
            THEN {before[i].full_name :
                    i \in {j \in DOMAIN before :
                            \/ IsNull(before[j].last_indexed)
                            \/ t - before[j].last_indexed
                                    >= (CACHE_HOURS * TicksPerDay) \div 24}}
            ELSE {}
    IN  [curated |-> curated_names, found |-> found_names, due |-> due_names]

Served(arg) == {k \in DOMAIN arg.doc_files : arg.doc_files[k] \in arg.answered}

\* C25: within index_repository a document whose fetch fails is skipped and
\* the other documents of the repository are still indexed, and the count of
\* the documents indexed is recorded: the run ends without exception, every
\* file that was served is in the table with the time of the run, the count
\* is the number of these files, and a row of indexing_history holds that
\* count for the repository
C25_PartialIndexingRecorded ==
    (/\ ret.op = "index_repository"
     /\ ret.arg.doc_files # <<>>)
        => /\ ret.err = "none"
           /\ ret.val = Cardinality(Served(ret.arg))
           /\ \A k \in Served(ret.arg) : \E i \in DOMAIN documents :
                /\ documents[i].repo_id = ret.arg.repo_id
                /\ documents[i].path = ret.arg.doc_files[k]
                /\ documents[i].indexed_at = now
           /\ \E h \in DOMAIN indexing_history :
                /\ indexing_history[h].repo_id = ret.arg.repo_id
                /\ indexing_history[h].documents_indexed = ret.val

\* the reads that run on connections of their own
Reads == {"search_documents", "list_repositories", "get_statistics"}

\* C26: with readers and writers on concurrent connections, no search, list
\* or statistics read observes a state in which the full-text index differs
\* from the committed documents, in particular not between the clear and
\* repopulate steps of rebuild_fts_index and not between a document write
\* and its index update.
C26_ReadsSeeIndexOfDocuments ==
    ret.op \in Reads => IndexMatchesDocuments

\* C27: every search request served (unified_search calling
\* search_documents) results in exactly one search query record appended by
\* log_search, carrying that request's query text and result count.  The
\* queries served here are lower-case words, so QueryTerms is their text as
\* log_search takes it.
C27_ServedSearchIsLogged ==
    [][(ret'.op = "unified_search" /\ ret'.err = "none")
        => /\ Len(search_queries') = Len(search_queries) + 1
           /\ search_queries'[Len(search_queries')].query
                = QueryTerms(ret'.arg.query)
           /\ search_queries'[Len(search_queries')].results_count
                = Len(ret'.results)]_vars

\* the places of the words of a query that are longer than two characters
\* and no stop word, in the case given by fold
ContentWords(query, fold(_)) ==
    {k \in DOMAIN query :
        WordLen(query[k]) > 2 /\ fold(query[k]) \notin stop_words}

\* the first of these words, else the first word of the query as written,
\* else 'unknown'
TopicBy(query, fold(_)) ==
    IF ContentWords(query, fold) # {}
    THEN fold(query[CHOOSE k \in ContentWords(query, fold) :
                        \A j \in ContentWords(query, fold) : k <= j])
    ELSE IF query # <<>> THEN query[1] ELSE "unknown"

AsWritten(w) == w

\* the zero-result search just logged has a record under its query, and
\* every record holds the topic of its query in the case given by fold
TopicsAre(fold(_)) ==
    (ret.op = "log_search" /\ ret.arg.results_count = 0)
        => /\ \E i \in DOMAIN missing_docs :
                missing_docs[i].query = ret.arg.query
           /\ \A i \in DOMAIN missing_docs :
                missing_docs[i].topic = TopicBy(missing_docs[i].query, fold)

\* C28 as stated: the topic extracted from a zero-result query is its first
\* whitespace-separated word that has more than 2 characters and is not in
\* the stop-word set; if no word qualifies the topic is the first word of
\* the query, and 'unknown' for a query with no words.
C28_TopicIsFirstContentWord == TopicsAre(AsWritten)

\* C28, amended: the words are tested and the topic is given in lower case;
\* the first word returned when no word qualifies is as written.
C28_TopicIsFirstContentWordLowered == TopicsAre(Lower)

\* zero-result searches were logged whose topic is a lower-cased word, a
\* first word kept as written, and 'unknown'
C28_Witness ==
    /\ ret.op = "log_search" /\ ret.arg.results_count = 0
    /\ \E i \in DOMAIN missing_docs :
            /\ missing_docs[i].query = <<"How", "to", "train">>
            /\ missing_docs[i].topic = "train"
    /\ \E i \in DOMAIN missing_docs :
            /\ missing_docs[i].query = <<"To", "go">>
            /\ missing_docs[i].topic = "To"
    /\ \E i \in DOMAIN missing_docs : missing_docs[i].topic = "unknown"

\* row x of a search result is an index entry paired with the repository
\* that owns its document
PairedWithOwner(x) ==
    \E d \in DOMAIN documents :
        /\ documents[d].path = x.path
        /\ FullNameOf(documents[d].repo_id) = x.full_name

\* C29: search_documents returns each matching full-text index entry at most
\* once and pairs it with the repository that owns that document, also when
\* several repositories hold documents with the same path (e.g. README.md).
\* Every repository served here has one document, so an index entry is known
\* by its full name and path.
C29_EachEntryOnceWithOwner ==
    (ret.op = "search_documents" /\ ret.err = "none")
        => \A i, j \in DOMAIN ret.val :
            /\ PairedWithOwner(ret.val[i])
            /\ (ret.val[i].full_name = ret.val[j].full_name
                    /\ ret.val[i].path = ret.val[j].path) => i = j

\* C30: format_search_response returns a payload (never raises) for every
\* row set that search_documents can return, including rows whose repository
\* description is null.
C30_FormatterTakesEveryRowSet ==
    (ret.op = "unified_search" /\ ret.results # <<>>)
        => (ret.err = "none" /\ ret.val # NULL)

==============================================================================
